---------------------------- MODULE Spec2Model ----------------------------
(***************************************************************************)
(* A model of the rstar R*-tree core: the node model, R* insertion with    *)
(* forced reinsertion and split, OMT bulk loading, the draining iterator   *)
(* behind remove_* / drain_* / pop_nearest_neighbor, and the queries the   *)
(* properties read the tree with.                                          *)
(*                                                                         *)
(* Scalars are modelled as i32 (points are [i32; 2]); items are            *)
(* primitives::Rectangle values, a point item being the degenerate         *)
(* rectangle lower = upper.  Indices are 0-based as in the source; a       *)
(* sequence element i of the source is s[i + 1] here.                      *)
(***************************************************************************)
EXTENDS Integers, Sequences, FiniteSets, Bags, TLC

VARIABLES params, origin, history, root, size, drain, last, loader

vars == <<params, origin, history, root, size, drain, last, loader>>

-----------------------------------------------------------------------------
(* Bounds of the model.                                                    *)

\* Coordinates of the items and query points range over 0 .. MaxCoord.
MaxCoord == 2

\* insert and bulk_load are enabled while the tree holds fewer items.
MaxItems == 5

\* The largest MAX_SIZE among the parameter sets.
MaxMaxSize == 4

-----------------------------------------------------------------------------
(* Scalar and Point ([i32; 2]).                                            *)

DIMENSIONS == 2

MaxScalar == 2147483647

MinScalar == (0 - 2147483647) - 1

USIZE_MAX == 2147483647

Axes == 0 .. (DIMENSIONS - 1)

min_inline(a, b) == IF a < b THEN a ELSE b

max_inline(a, b) == IF a > b THEN a ELSE b

nth(p, i) == p[i + 1]

\* The sequence f with every element evaluated.
collect(f) == SubSeq(f, 1, Len(f))

from_value(v) == collect([i \in 1 .. DIMENSIONS |-> v])

min_point(p, q) == collect([i \in 1 .. DIMENSIONS |-> min_inline(p[i], q[i])])

max_point(p, q) == collect([i \in 1 .. DIMENSIONS |-> max_inline(p[i], q[i])])

sub(p, q) == collect([i \in 1 .. DIMENSIONS |-> p[i] - q[i]])

RECURSIVE fold_sum(_, _)
fold_sum(p, i) == IF i = 0 THEN 0 ELSE fold_sum(p, i - 1) + p[i]

length_2(p) == fold_sum(collect([i \in 1 .. DIMENSIONS |-> p[i] * p[i]]), DIMENSIONS)

\* Integer division of the scalar type truncates towards zero.
scalar_div(a, b) == IF a >= 0 THEN a \div b ELSE 0 - ((0 - a) \div b)

-----------------------------------------------------------------------------
(* AABB, the envelope type.                                                *)

AABB(lo, hi) == [lower |-> lo, upper |-> hi]

new_empty == AABB(from_value(MaxScalar), from_value(MinScalar))

from_corners(p1, p2) == AABB(min_point(p1, p2), max_point(p1, p2))

from_point(p) == AABB(p, p)

\* contains_point without the test against upper.
contains_point_lower_only(e, p) == \A i \in 1 .. DIMENSIONS : e.lower[i] <= p[i]

contains_point(e, p) ==
    /\ \A i \in 1 .. DIMENSIONS : e.lower[i] <= p[i]
    /\ \A i \in 1 .. DIMENSIONS : e.upper[i] >= p[i]

contains_envelope(e, o) ==
    /\ \A i \in 1 .. DIMENSIONS : e.lower[i] <= o.lower[i]
    /\ \A i \in 1 .. DIMENSIONS : e.upper[i] >= o.upper[i]

\* merged without the merge: the other envelope is ignored.
merged_ignores_other(e, o) == e

merged(e, o) == AABB(min_point(e.lower, o.lower), max_point(e.upper, o.upper))

\* intersects that holds only if e contains o.
intersects_contained(e, o) == contains_envelope(e, o)

\* intersects with strict comparisons: touching envelopes do not intersect.
intersects_strict(e, o) ==
    /\ \A i \in 1 .. DIMENSIONS : e.lower[i] < o.upper[i]
    /\ \A i \in 1 .. DIMENSIONS : e.upper[i] > o.lower[i]

intersects(e, o) ==
    /\ \A i \in 1 .. DIMENSIONS : e.lower[i] <= o.upper[i]
    /\ \A i \in 1 .. DIMENSIONS : e.upper[i] >= o.lower[i]

RECURSIVE fold_area(_, _)
fold_area(diag, i) ==
    IF i = 0 THEN 1 ELSE max_inline(diag[i], 0) * fold_area(diag, i - 1)

area(e) == fold_area(sub(e.upper, e.lower), DIMENSIONS)

intersection_area(e, o) ==
    area(AABB(max_point(e.lower, o.lower), min_point(e.upper, o.upper)))

perimeter_value(e) ==
    max_inline(fold_sum(sub(e.upper, e.lower), DIMENSIONS), 0)

center(e) == collect([i \in 1 .. DIMENSIONS |-> scalar_div(e.lower[i] + e.upper[i], 2)])

aabb_min_point(e, p) == min_point(e.upper, max_point(e.lower, p))

\* distance_2 measured to the upper corner instead of to min_point.
aabb_distance_2_to_upper(e, p) == length_2(sub(e.upper, p))

aabb_distance_2(e, p) ==
    IF contains_point(e, p) THEN 0 ELSE length_2(sub(aabb_min_point(e, p), p))

\* The scalar arithmetic of an integer Scalar overflows: l - r, x * x and the
\* sum of length_2 leave the range MinScalar .. MaxScalar.  With overflow
\* checks the operation panics, without them the result wraps.
sub_overflows(l, r) ==
    \/ r > 0 /\ l < MinScalar + r
    \/ r < 0 /\ l > MaxScalar + r

square_overflows(x) ==
    \/ x = MinScalar
    \/ x # 0 /\ (IF x < 0 THEN 0 - x ELSE x) > MaxScalar \div (IF x < 0 THEN 0 - x ELSE x)

\* Point::length_2 over the first i components: fold(0, |acc, cur| cur * cur + acc)
RECURSIVE length_2_acc(_, _)
length_2_acc(p, i) == IF i = 0 THEN 0 ELSE p[i] * p[i] + length_2_acc(p, i - 1)

RECURSIVE length_2_overflows(_, _)
length_2_overflows(p, i) ==
    IF i = 0 THEN FALSE
    ELSE \/ length_2_overflows(p, i - 1)
         \/ square_overflows(p[i])
         \/ p[i] * p[i] > MaxScalar - length_2_acc(p, i - 1)

\* AABB::distance_2 overflows: in self.min_point(point).sub(point) or in length_2
aabb_distance_2_overflows(e, p) ==
    /\ ~contains_point(e, p)
    /\ LET m == aabb_min_point(e, p)
       IN  \/ \E i \in 1 .. DIMENSIONS : sub_overflows(m[i], p[i])
           \/ length_2_overflows(sub(m, p), DIMENSIONS)

-----------------------------------------------------------------------------
(* Items (primitives::Rectangle) and nodes.                                *)

\* RTreeObject::envelope of a Rectangle: a copy of its aabb.
envelope_of(t) == AABB(t.lower, t.upper)

Leaf(t) == [leaf |-> TRUE, t |-> t]

ParentNode(children, envelope) ==
    [leaf |-> FALSE, children |-> children, envelope |-> envelope]

node_envelope(n) == IF n.leaf THEN envelope_of(n.t) ELSE n.envelope

is_leaf(n) == n.leaf

RECURSIVE merge_children(_, _)
merge_children(result, children) ==
    IF children = <<>>
    THEN result
    ELSE merge_children(merged(result, node_envelope(Head(children))), Tail(children))

envelope_for_children(children) == merge_children(new_empty, children)

new_root == ParentNode(<<>>, new_empty)

new_parent(children) == ParentNode(children, envelope_for_children(children))

\* The run-time parameters of the tree under consideration.
MAX_SIZE == params.MAX_SIZE

MIN_SIZE == params.MIN_SIZE

REINSERTION_COUNT == params.REINSERTION_COUNT

-----------------------------------------------------------------------------
(* Vec helpers.                                                            *)

\* push that leaves the vector as it was.
push_nothing(v, x) == v

push(v, x) == Append(v, x)

\* Vec::split_off(at): <<the first at elements, the rest>>.
split_off(v, at) == <<SubSeq(v, 1, at), SubSeq(v, at + 1, Len(v))>>

\* swap_remove that removes the last element whatever the index.
swap_remove_last(v, index) == SubSeq(v, 1, Len(v) - 1)

\* Vec::swap_remove(index): the last element takes the removed one's place.
swap_remove(v, index) ==
    IF index + 1 = Len(v)
    THEN SubSeq(v, 1, Len(v) - 1)
    ELSE [SubSeq(v, 1, Len(v) - 1) EXCEPT ![index + 1] = v[Len(v)]]

\* swap that leaves the vector as it is.
swap_nothing(v, a, b) == v

\* slice::swap(a, b)
swap(v, a, b) == [v EXCEPT ![a + 1] = v[b + 1], ![b + 1] = v[a + 1]]

\* A stable sort of v by the integer keys key[i] of its elements.
sort_by_key(v, key) ==
    LET elements == collect(v)
        keys == collect(key)
        pos == collect([i \in DOMAIN elements |->
                    Cardinality({j \in DOMAIN elements :
                        keys[j] < keys[i] \/ (keys[j] = keys[i] /\ j < i)}) + 1])
    IN  collect([p \in DOMAIN elements |->
                    elements[CHOOSE i \in DOMAIN elements : pos[i] = p]])

\* A sort by the upper bound of the envelopes.
sort_envelopes_by_upper(axis, children) ==
    sort_by_key(children,
                [i \in DOMAIN children |-> nth(node_envelope(children[i]).upper, axis)])

sort_envelopes(axis, children) ==
    sort_by_key(children,
                [i \in DOMAIN children |-> nth(node_envelope(children[i]).lower, axis)])

\* pdqselect::select_by leaves the first selection_size elements no larger
\* than the rest; the order inside the two parts is the library's.  The
\* model takes the fully sorted arrangement, which is one such outcome.
partition_envelopes(axis, elements, selection_size) ==
    sort_by_key(elements,
                [i \in DOMAIN elements |-> nth(envelope_of(elements[i]).lower, axis)])

\* Lexicographic order of tuples of scalars (PartialOrd of Rust tuples).
RECURSIVE tuple_less(_, _)
tuple_less(a, b) ==
    IF a = <<>> THEN FALSE
    ELSE IF Head(a) # Head(b) THEN Head(a) < Head(b)
    ELSE tuple_less(Tail(a), Tail(b))

-----------------------------------------------------------------------------
(* R* insertion (algorithm/rstar.rs).                                      *)

Complete == [kind |-> "Complete"]

\* A Split that hands up the first child of the new sibling in its place.
Split_first_child(node) == [kind |-> "Split", node |-> node.children[1]]

Split(node) == [kind |-> "Split", node |-> node]

Reinsert(nodes, depth) == [kind |-> "Reinsert", nodes |-> nodes, depth |-> depth]

\* panic!("This is a bug in rstar.") / unreachable!(...)
Panic(msg) == [kind |-> "Panic", msg |-> msg]

choose_subtree(node, to_insert) ==
    LET children == node.children
        n == Len(children)
    IN  IF n = 0 THEN USIZE_MAX
        ELSE IF children[1].leaf THEN USIZE_MAX
        ELSE
        LET all_leaves == IF children[1].children = <<>>
                          THEN TRUE
                          ELSE is_leaf(children[1].children[1])
            insertion_envelope == node_envelope(to_insert)
            including == {i \in 1 .. n :
                            contains_envelope(node_envelope(children[i]), insertion_envelope)}
            overlap_increase(i) ==
                IF all_leaves
                THEN LET envelope == node_envelope(children[i])
                         new_envelope == merged(envelope, insertion_envelope)
                         others == collect([j \in 1 .. n |->
                                     IF j = i THEN 0
                                     ELSE intersection_area(new_envelope, node_envelope(children[j]))
                                          - intersection_area(envelope, node_envelope(children[j]))])
                     IN  fold_sum(others, n)
                ELSE 0
            new_min(i) ==
                LET envelope == node_envelope(children[i])
                    new_area == area(merged(envelope, insertion_envelope))
                IN  <<overlap_increase(i), new_area - area(envelope), new_area>>
            min_by(keys) ==
                (CHOOSE i \in 1 .. n :
                    \A j \in 1 .. n :
                        tuple_less(keys[i], keys[j]) \/ (keys[i] = keys[j] /\ i <= j)) - 1
        IN  IF including # {}
            THEN (CHOOSE i \in including :
                    \A j \in including :
                        LET ai == area(node_envelope(children[i]))
                            aj == area(node_envelope(children[j]))
                        IN  ai < aj \/ (ai = aj /\ i <= j)) - 1
            ELSE min_by(collect([i \in 1 .. n |-> new_min(i)]))

\* The children as get_split_axis leaves them after sorting along axes
\* 0 .. axis in turn (the sorts are stable and in place).
RECURSIVE sorted_through(_, _)
sorted_through(children, axis) ==
    IF axis = 0
    THEN sort_envelopes(0, children)
    ELSE sort_envelopes(axis, sorted_through(children, axis - 1))

\* <<best_axis, the children as the function leaves them>>
get_split_axis(node) ==
    LET len == Len(node.children)
        until == len - MIN_SIZE + 1
        cand == {<<axis, k>> : axis \in Axes, k \in MIN_SIZE .. (until - 1)}
        \* sorted[axis + 1]: the children after the sorts along axes 0 .. axis
        best(sorted) ==
            LET goodness(axis, k) ==
                    perimeter_value(envelope_for_children(SubSeq(sorted[axis + 1], 1, k)))
                    + perimeter_value(
                        envelope_for_children(SubSeq(sorted[axis + 1], k + 1, len)))
                better(c, d) ==
                    \/ goodness(c[1], c[2]) < goodness(d[1], d[2])
                    \/ /\ goodness(c[1], c[2]) = goodness(d[1], d[2])
                       /\ (c[1] < d[1] \/ (c[1] = d[1] /\ c[2] <= d[2]))
                best_axis ==
                    IF \A c \in cand : goodness(c[1], c[2]) >= MaxScalar
                    THEN 0
                    ELSE (CHOOSE c \in cand : \A d \in cand : better(c, d))[1]
            IN  <<best_axis, sorted[DIMENSIONS]>>
    IN  best(collect([a \in 1 .. DIMENSIONS |-> sorted_through(node.children, a - 1)]))

\* <<the node keeping the first group, the new sibling>>
split(node) ==
    LET \* sorted: the children after the sort along the chosen axis
        halves(sorted) ==
            LET len == Len(sorted)
                value(k) ==
                    LET first_envelope == envelope_for_children(SubSeq(sorted, 1, k))
                        second_envelope == envelope_for_children(SubSeq(sorted, k + 1, len))
                    IN  <<intersection_area(first_envelope, second_envelope),
                          area(first_envelope) + area(second_envelope)>>
                ks == MIN_SIZE .. (len - MIN_SIZE)
                best_index ==
                    IF ks = {} THEN MIN_SIZE
                    ELSE CHOOSE k \in ks :
                            \A j \in ks : tuple_less(value(k), value(j))
                                          \/ (value(k) = value(j) /\ k <= j)
                off(parts) ==
                    <<ParentNode(parts[1], envelope_for_children(parts[1])),
                      new_parent(parts[2])>>
            IN  off(split_off(sorted, best_index))
        along(chosen) == halves(sort_envelopes(chosen[1], chosen[2]))
    IN  along(get_split_axis(node))

\* <<the node without the children to reinsert, those children>>
get_nodes_for_reinsertion(node) ==
    LET c == center(node.envelope)
        sorted == sort_by_key(node.children,
                    [i \in DOMAIN node.children |->
                        length_2(sub(center(node_envelope(node.children[i])), c))])
        parts == split_off(sorted, Len(sorted) - REINSERTION_COUNT)
    IN  <<ParentNode(parts[1], envelope_for_children(parts[1])), parts[2]>>

\* The functions below return <<node as left by the call, InsertionResult>>.
resolve_overflow_without_reinsertion(node) ==
    IF Len(node.children) > MAX_SIZE
    THEN LET overflowed(s) == <<s[1], Split(s[2])>> IN overflowed(split(node))
    ELSE <<node, Complete>>

resolve_overflow(node, current_depth) ==
    IF REINSERTION_COUNT = 0
    THEN resolve_overflow_without_reinsertion(node)
    ELSE IF Len(node.children) > MAX_SIZE
    THEN LET r == get_nodes_for_reinsertion(node)
         IN  <<r[1], Reinsert(r[2], current_depth)>>
    ELSE <<node, Complete>>

RECURSIVE recursive_insert(_, _, _)
recursive_insert(node, t, current_height) ==
    LET merged_node == [node EXCEPT !.envelope = merged(node.envelope, node_envelope(t))]
        \* expand: what the call on the child at expand_index returned
        matched(expand_index, expand) ==
            LET followed == [merged_node EXCEPT !.children[expand_index + 1] = expand[1]]
            IN  CASE expand[2].kind = "Split" ->
                        resolve_overflow(
                            [followed EXCEPT
                                !.envelope =
                                    merged(followed.envelope, node_envelope(expand[2].node)),
                                !.children = push(followed.children, expand[2].node)],
                            current_height)
                  [] expand[2].kind = "Reinsert" ->
                        <<[followed EXCEPT
                            !.envelope = envelope_for_children(followed.children)],
                          expand[2]>>
                  [] OTHER -> <<followed, expand[2]>>
        chosen(expand_index) ==
            IF Len(node.children) < expand_index
            THEN resolve_overflow(
                    [merged_node EXCEPT !.children = push(node.children, t)], current_height)
            ELSE IF node.children[expand_index + 1].leaf
            THEN <<merged_node, Panic("This is a bug in rstar.")>>
            ELSE matched(expand_index,
                         recursive_insert(node.children[expand_index + 1], t,
                                          current_height + 1))
    IN  chosen(choose_subtree(merged_node, t))

RECURSIVE forced_insertion(_, _, _)
forced_insertion(node, t, target_height) ==
    LET merged_node == [node EXCEPT !.envelope = merged(node.envelope, node_envelope(t))]
        \* expand: what the call on the child at expand_index returned
        matched(expand_index, expand) ==
            LET followed == [merged_node EXCEPT !.children[expand_index + 1] = expand[1]]
            IN  IF expand[2].kind = "Split"
                THEN resolve_overflow_without_reinsertion(
                        [followed EXCEPT
                            !.envelope =
                                merged(followed.envelope, node_envelope(expand[2].node)),
                            !.children = push(followed.children, expand[2].node)])
                ELSE <<followed, expand[2]>>
        chosen(expand_index) ==
            IF target_height = 0 \/ Len(node.children) < expand_index
            THEN resolve_overflow_without_reinsertion(
                    [merged_node EXCEPT !.children = push(node.children, t)])
            ELSE IF node.children[expand_index + 1].leaf
            THEN <<merged_node, Panic("This is a bug in rstar.")>>
            ELSE matched(expand_index,
                         forced_insertion(node.children[expand_index + 1], t,
                                          target_height - 1))
    IN  chosen(choose_subtree(merged_node, t))

\* The depths, counted from node at depth, of the nodes that a call of
\* forced_insertion splits: the node the insertion is forced into when the
\* push overflows it, and each node above it that a Split from below
\* overflows.
RECURSIVE forced_insertion_splits(_, _, _, _)
forced_insertion_splits(node, t, target_height, depth) ==
    LET merged_node == [node EXCEPT !.envelope = merged(node.envelope, node_envelope(t))]
        overflows == IF Len(node.children) + 1 > MAX_SIZE THEN {depth} ELSE {}
        \* expand: the depths the call on the child split; the child returned
        \* a Split when it was split itself
        matched(expand) ==
            IF (depth + 1) \in expand THEN expand \cup overflows ELSE expand
        chosen(expand_index) ==
            IF target_height = 0 \/ Len(node.children) < expand_index
            THEN overflows
            ELSE IF node.children[expand_index + 1].leaf
            THEN {}
            ELSE matched(forced_insertion_splits(node.children[expand_index + 1], t,
                                                 target_height - 1, depth + 1))
    IN  chosen(choose_subtree(merged_node, t))

PerformSplit(node) == [action |-> "PerformSplit", node |-> node]

PerformReinsert(node) == [action |-> "PerformReinsert", node |-> node]

\* Vec::extend(nodes.into_iter().map(PerformReinsert))
RECURSIVE extend_reinsert(_, _)
extend_reinsert(stack, nodes) ==
    IF nodes = <<>> THEN stack
    ELSE extend_reinsert(push(stack, PerformReinsert(Head(nodes))), Tail(nodes))

\* The while-let loop of RStarInsertionStrategy::insert over insertion_stack.
\* events records, in order, what the call did: <<"reinsert", depth, nodes>>,
\* <<"split">> (a root split that grows the tree) and
\* <<"forced", height, depths of the nodes the forced insertion split>>.
RECURSIVE insertion_loop(_, _, _, _)
insertion_loop(tree_root, insertion_stack, target_height, events) ==
    IF insertion_stack = <<>>
    THEN [root |-> tree_root, panic |-> FALSE, events |-> events]
    ELSE
    LET next == insertion_stack[Len(insertion_stack)]
        rest == SubSeq(insertion_stack, 1, Len(insertion_stack) - 1)
    IN  IF next.action = "PerformSplit"
        THEN insertion_loop(
                ParentNode(<<tree_root, next.node>>,
                           merged(tree_root.envelope, node_envelope(next.node))),
                rest, target_height + 1, Append(events, <<"split">>))
        ELSE
        LET matched(r, ev) ==
                CASE r[2].kind = "Split" ->
                        insertion_loop(r[1], push(rest, PerformSplit(r[2].node)),
                                       target_height, ev)
                  [] r[2].kind = "Complete" ->
                        insertion_loop(r[1], rest, target_height, ev)
                  [] OTHER ->
                        [root |-> r[1], panic |-> TRUE, events |-> ev]
        IN  matched(forced_insertion(tree_root, next.node, target_height),
                    Append(events,
                           <<"forced", target_height,
                             forced_insertion_splits(tree_root, next.node, target_height, 0)>>))

\* RStarInsertionStrategy::insert: the root after the call, whether the call
\* panicked, and the events of the call.
rstar_insert(tree_root, t) ==
    LET matched(first) ==
            CASE first[2].kind = "Split" ->
                    insertion_loop(first[1], <<PerformSplit(first[2].node)>>, 0, <<>>)
              [] first[2].kind = "Reinsert" ->
                    insertion_loop(first[1], extend_reinsert(<<>>, first[2].nodes),
                                   first[2].depth,
                                   <<<<"reinsert", first[2].depth, first[2].nodes>>>>)
              [] first[2].kind = "Complete" ->
                    [root |-> first[1], panic |-> FALSE, events |-> <<>>]
              [] OTHER ->
                    [root |-> first[1], panic |-> TRUE, events |-> <<>>]
    IN  matched(recursive_insert(tree_root, Leaf(t), 0))

-----------------------------------------------------------------------------
(* Selection functions (algorithm/selection_functions.rs).                 *)

None == <<>>

Some(x) == <<x>>

\* PartialEq of Rectangle: the two aabbs are equal.
item_eq(a, b) == a.lower = b.lower /\ a.upper = b.upper

\* PointDistance of Rectangle.
item_distance_2(t, point) == length_2(sub(aabb_min_point(envelope_of(t), point), point))

item_contains_point(t, point) == contains_point(envelope_of(t), point)

\* distance_2_if_less_or_equal with a strict comparison.
distance_2_if_less(t, point, max_distance_2) ==
    LET distance_2 == item_distance_2(t, point)
    IN  IF distance_2 < max_distance_2 THEN Some(distance_2) ELSE None

distance_2_if_less_or_equal(t, point, max_distance_2) ==
    LET distance_2 == item_distance_2(t, point)
    IN  IF distance_2 <= max_distance_2 THEN Some(distance_2) ELSE None

SelectAllFunc == [kind |-> "SelectAll"]

SelectAtPointFunction(point) == [kind |-> "SelectAtPoint", point |-> point]

SelectEqualsFunction(t) == [kind |-> "SelectEquals", object_to_remove |-> t]

SelectInEnvelopeFunction(envelope) == [kind |-> "SelectInEnvelope", envelope |-> envelope]

SelectInEnvelopeFuncIntersecting(envelope) ==
    [kind |-> "SelectInEnvelopeIntersecting", envelope |-> envelope]

SelectWithinDistanceFunction(circle_origin, squared_max_distance) ==
    [kind |-> "SelectWithinDistance", circle_origin |-> circle_origin,
     squared_max_distance |-> squared_max_distance]

SelectByAddressFunction(envelope, element_address) ==
    [kind |-> "SelectByAddress", envelope |-> envelope, element_address |-> element_address]

\* SelectNoneFunc of the iterator tests: it defines should_unpack_parent only.
SelectNoneFunc == [kind |-> "SelectNone"]

\* An implementor of SelectionFunction that defines should_unpack_parent only:
\* a parent is unpacked when its envelope intersects the function's.
SelectParentFunc(envelope) == [kind |-> "SelectParent", envelope |-> envelope]

should_unpack_parent(func, envelope) ==
    CASE func.kind = "SelectAll" -> TRUE
      [] func.kind = "SelectNone" -> FALSE
      [] func.kind = "SelectParent" -> intersects(func.envelope, envelope)
      [] func.kind = "SelectAtPoint" -> contains_point(envelope, func.point)
      [] func.kind = "SelectEquals" ->
            contains_envelope(envelope, envelope_of(func.object_to_remove))
      [] func.kind = "SelectInEnvelope" -> intersects(func.envelope, envelope)
      [] func.kind = "SelectInEnvelopeIntersecting" -> intersects(func.envelope, envelope)
      [] func.kind = "SelectWithinDistance" ->
            aabb_distance_2(envelope, func.circle_origin) <= func.squared_max_distance
      [] func.kind = "SelectByAddress" -> contains_envelope(envelope, func.envelope)

\* A default that asks should_unpack_parent about the leaf's own envelope.
should_unpack_leaf_as_parent(func, leaf) == should_unpack_parent(func, envelope_of(leaf))

\* SelectionFunction::should_unpack_leaf, the provided method of the trait.
should_unpack_leaf_default(func, leaf) == TRUE

should_unpack_leaf(func, leaf) ==
    CASE func.kind = "SelectAll" -> TRUE
      [] func.kind = "SelectNone" -> should_unpack_leaf_default(func, leaf)
      [] func.kind = "SelectParent" -> should_unpack_leaf_default(func, leaf)
      [] func.kind = "SelectAtPoint" -> item_contains_point(leaf, func.point)
      [] func.kind = "SelectEquals" -> item_eq(leaf, func.object_to_remove)
      [] func.kind = "SelectInEnvelope" -> contains_envelope(func.envelope, envelope_of(leaf))
      [] func.kind = "SelectInEnvelopeIntersecting" ->
            intersects(envelope_of(leaf), func.envelope)
      [] func.kind = "SelectWithinDistance" ->
            distance_2_if_less_or_equal(
                leaf, func.circle_origin, func.squared_max_distance) # None
      [] func.kind = "SelectByAddress" -> leaf.addr = func.element_address

-----------------------------------------------------------------------------
(* SelectionIterator (algorithm/iterators.rs).                             *)

\* The loop of SelectionIterator::next run to exhaustion: the items yielded,
\* in order, from the stack current_nodes (its last element is popped first).
RECURSIVE selection_next(_, _)
selection_next(func, current_nodes) ==
    IF current_nodes = <<>> THEN <<>>
    ELSE
    LET next == current_nodes[Len(current_nodes)]
        rest == SubSeq(current_nodes, 1, Len(current_nodes) - 1)
    IN  IF next.leaf
        THEN IF should_unpack_leaf(func, next.t)
             THEN <<next.t>> \o selection_next(func, rest)
             ELSE selection_next(func, rest)
        ELSE IF should_unpack_parent(func, next.envelope)
             THEN selection_next(func, rest \o next.children)
             ELSE selection_next(func, rest)

\* SelectionIterator::new followed by collecting the iterator.
SelectionIterator(tree_root, func) ==
    IF should_unpack_parent(func, tree_root.envelope)
    THEN selection_next(func, tree_root.children)
    ELSE <<>>

\* The visitor select_nodes is called with: it records the items it is given
\* and breaks at its break_at-th call (never, when break_at is 0).
visitor(calls, t, break_at) ==
    [visited |-> Append(calls.visited, t),
     broke |-> Len(calls.visited) + 1 = break_at]

\* inner of select_nodes: the for loop over parent.children from its i-th
\* child on; a Break returned by the visitor ends every enclosing loop.
RECURSIVE select_nodes_inner(_, _, _, _, _)
select_nodes_inner(parent, func, i, break_at, calls) ==
    IF calls.broke \/ i > Len(parent.children) THEN calls
    ELSE
    LET node == parent.children[i]
        after == IF node.leaf
                 THEN IF should_unpack_leaf(func, node.t)
                      THEN visitor(calls, node.t, break_at)
                      ELSE calls
                 ELSE IF should_unpack_parent(func, node.envelope)
                      THEN select_nodes_inner(node, func, 1, break_at, calls)
                      ELSE calls
    IN  select_nodes_inner(parent, func, i + 1, break_at, after)

\* select_nodes: the calls made of the visitor and whether it broke.
select_nodes(tree_root, func, break_at) ==
    IF should_unpack_parent(func, tree_root.envelope)
    THEN select_nodes_inner(tree_root, func, 1, break_at, [visited |-> <<>>, broke |-> FALSE])
    ELSE [visited |-> <<>>, broke |-> FALSE]

\* RTree::iter
iter(tree_root) == SelectionIterator(tree_root, SelectAllFunc)

\* RTree::locate_in_envelope
locate_in_envelope(tree_root, envelope) ==
    SelectionIterator(tree_root, SelectInEnvelopeFunction(envelope))

\* RTree::locate_within_distance, collected: the set of outcomes [panic, ret].
\* SelectionIterator::new calls should_unpack_parent on the root's envelope;
\* where distance_2 overflows there, a build with overflow checks panics and
\* a build without them compares the wrapped value, to either result.
locate_within_distance(tree_root, query_point, max_squared_radius) ==
    LET func == SelectWithinDistanceFunction(query_point, max_squared_radius)
    IN  IF aabb_distance_2_overflows(tree_root.envelope, query_point)
        THEN {[panic |-> TRUE, ret |-> <<>>],
              [panic |-> FALSE, ret |-> selection_next(func, tree_root.children)],
              [panic |-> FALSE, ret |-> <<>>]}
        ELSE {[panic |-> FALSE, ret |-> SelectionIterator(tree_root, func)]}

\* RTree::contains
contains(tree_root, t) ==
    LET found == locate_in_envelope(tree_root, envelope_of(t))
    IN  \E i \in DOMAIN found : item_eq(found[i], t)

-----------------------------------------------------------------------------
(* DrainIterator (algorithm/removal.rs).  An iterator value is             *)
(* [node_stack, original_size, removal_function]; node_stack holds         *)
(* <<node, idx, num_removed>> entries.  The operations return the          *)
(* iterator together with the borrowed tree's root and size.               *)

\* (original_size as f32).log(m as f32).ceil() as usize: ln(x) / ln(m) with
\* ln(1) = 0, so that m = 1 divides by zero: -inf or NaN (cast to 0) for
\* x <= 1 and +inf (cast saturates to usize::MAX) for x >= 2.
RECURSIVE ceil_log(_, _, _, _)
ceil_log(x, m, d, power) ==
    IF power >= x THEN d ELSE ceil_log(x, m, d + 1, power * m)

log_ceil_as_usize(x, m) ==
    IF x = 0 THEN 0
    ELSE IF m = 0 THEN 0
    ELSE IF m = 1 THEN (IF x = 1 THEN 0 ELSE USIZE_MAX)
    ELSE ceil_log(x, m, 0, 1)

\* Vec::with_capacity panics ("capacity overflow") when the capacity in
\* bytes exceeds isize::MAX; a stack entry is at least one byte.
ISIZE_MAX == USIZE_MAX \div 2

with_capacity_panics(capacity) == capacity > ISIZE_MAX

\* DrainIterator::new without the two replace calls: the tree keeps its root
\* and its size while the iterator exists.
drain_new_in_place(tree_root, tree_size, removal_function) ==
    [panic |-> with_capacity_panics(log_ceil_as_usize(tree_size, MIN_SIZE)),
     root |-> tree_root,
     size |-> tree_size,
     node_stack |-> <<<<tree_root, 0, 0>>>>,
     original_size |-> tree_size,
     removal_function |-> removal_function]

\* DrainIterator::new
drain_new(tree_root, tree_size, removal_function) ==
    LET original_size == tree_size
        max_depth == log_ceil_as_usize(original_size, MIN_SIZE)
    IN  [panic |-> with_capacity_panics(max_depth),
         root |-> ParentNode(<<>>, new_empty),
         size |-> 0,
         node_stack |-> <<<<tree_root, 0, 0>>>>,
         original_size |-> original_size,
         removal_function |-> removal_function]

\* DrainIterator::pop_node: [node_stack, result], result an Option of
\* <<node, num_removed>>.
pop_node(node_stack, increment_idx) ==
    LET top == node_stack[Len(node_stack)]
        num_removed == top[3]
        node == IF num_removed > 0
                THEN [top[1] EXCEPT !.envelope = envelope_for_children(top[1].children)]
                ELSE top[1]
        rest == SubSeq(node_stack, 1, Len(node_stack) - 1)
    IN  IF rest = <<>>
        THEN [node_stack |-> rest, result |-> Some(<<node, num_removed>>)]
        ELSE
        LET p == Len(rest)
            parent_node == rest[p][1]
            parent_idx == rest[p][2]
            parent_removed == rest[p][3] + num_removed
            pushed == push(parent_node.children, node)
        IN  IF node.children = <<>>
            THEN [node_stack |-> [rest EXCEPT ![p] = <<parent_node, parent_idx, parent_removed>>],
                  result |-> None]
            ELSE IF ~increment_idx
            THEN [node_stack |->
                    [rest EXCEPT ![p] = <<[parent_node EXCEPT !.children = pushed],
                                          parent_idx, parent_removed>>],
                  result |-> None]
            ELSE [node_stack |->
                    [rest EXCEPT ![p] =
                        <<[parent_node EXCEPT
                             !.children = swap(pushed, parent_idx, Len(pushed) - 1)],
                          parent_idx + 1, parent_removed>>],
                  result |-> None]

\* DrainIterator::next on the iterator it over a tree (tree_root, tree_size):
\* [node_stack, root, size, ret].
RECURSIVE drain_next(_, _, _)
drain_next(it, tree_root, tree_size) ==
    IF it.node_stack = <<>>
    THEN [node_stack |-> <<>>, root |-> tree_root, size |-> tree_size, ret |-> None]
    ELSE
    LET p == Len(it.node_stack)
        node == it.node_stack[p][1]
        idx == it.node_stack[p][2]
        remove_count == it.node_stack[p][3]
        unpack == idx > 0 \/ should_unpack_parent(it.removal_function, node.envelope)
        \* the while loop: the first index from idx on that holds a parent
        \* or a selected leaf
        stops == {i \in idx .. (Len(node.children) - 1) :
                    \/ ~node.children[i + 1].leaf
                    \/ should_unpack_leaf(it.removal_function, node.children[i + 1].t)}
    IN  IF unpack /\ stops # {}
        THEN
            LET at == CHOOSE i \in stops : \A j \in stops : i <= j
                child == node.children[at + 1]
                removed == swap_remove(node.children, at)
            IN  IF ~child.leaf
                THEN drain_next(
                        [it EXCEPT !.node_stack =
                            push([it.node_stack EXCEPT
                                    ![p] = <<[node EXCEPT !.children = removed], at, remove_count>>],
                                 <<child, 0, 0>>)],
                        tree_root, tree_size)
                ELSE [node_stack |->
                        [it.node_stack EXCEPT
                            ![p] = <<[node EXCEPT !.children = removed], at, remove_count + 1>>],
                      root |-> tree_root, size |-> tree_size, ret |-> Some(child.t)]
        ELSE
            LET scanned == IF unpack
                           THEN [it.node_stack EXCEPT
                                    ![p] = <<node, max_inline(idx, Len(node.children)), remove_count>>]
                           ELSE it.node_stack
                popped == pop_node(scanned, TRUE)
            IN  IF popped.result # None
                THEN [node_stack |-> popped.node_stack,
                      root |-> popped.result[1][1],
                      size |-> it.original_size - popped.result[1][2],
                      ret |-> None]
                ELSE drain_next([it EXCEPT !.node_stack = popped.node_stack],
                                tree_root, tree_size)

\* Drop for DrainIterator: [root, size] of the tree afterwards.
RECURSIVE drain_drop_loop(_, _)
drain_drop_loop(node_stack, original_size) ==
    LET popped == pop_node(node_stack, FALSE)
    IN  IF popped.result # None
        THEN [root |-> popped.result[1][1], size |-> original_size - popped.result[1][2]]
        ELSE drain_drop_loop(popped.node_stack, original_size)

\* Drop that puts the root back without updating the size.
drain_drop_keeps_size(it, tree_root, tree_size) ==
    IF it.node_stack = <<>>
    THEN [root |-> tree_root, size |-> tree_size]
    ELSE [root |-> drain_drop_loop(it.node_stack, it.original_size).root,
          size |-> it.original_size]

drain_drop(it, tree_root, tree_size) ==
    IF it.node_stack = <<>>
    THEN [root |-> tree_root, size |-> tree_size]
    ELSE drain_drop_loop(it.node_stack, it.original_size)

\* RTree::drain_with_selection_function consumed to its end: next is called
\* until it returns None.  [root, size, yielded].
RECURSIVE drain_collect(_, _, _, _)
drain_collect(it, tree_root, tree_size, yielded) ==
    LET more(nx) ==
            IF nx.ret = None
            THEN [root |-> nx.root, size |-> nx.size, yielded |-> yielded]
            ELSE drain_collect([it EXCEPT !.node_stack = nx.node_stack],
                               nx.root, nx.size, Append(yielded, nx.ret[1]))
    IN  more(drain_next(it, tree_root, tree_size))

\* RTree::drain_with_selection_function, collected and dropped.
\* [panic, root, size, ret].
drain_with_selection_function(tree_root, tree_size, function) ==
    LET new == drain_new(tree_root, tree_size, function)
    IN  IF new.panic
        THEN [panic |-> TRUE, root |-> new.root, size |-> new.size, ret |-> <<>>]
        ELSE
        LET it == [node_stack |-> new.node_stack, original_size |-> new.original_size,
                   removal_function |-> function]
            collected(r) == [panic |-> FALSE, root |-> r.root, size |-> r.size, ret |-> r.yielded]
        IN  collected(drain_collect(it, new.root, new.size, <<>>))

\* RTree::remove_with_selection_function:
\* DrainIterator::new(self, function).take(1).last(), which calls next once
\* and then drops the iterator.  [panic, root, size, ret].
remove_with_selection_function(tree_root, tree_size, function) ==
    LET new == drain_new(tree_root, tree_size, function)
    IN  IF new.panic
        THEN [panic |-> TRUE, root |-> new.root, size |-> new.size, ret |-> None]
        ELSE
        LET it == [node_stack |-> new.node_stack, original_size |-> new.original_size,
                   removal_function |-> function]
            \* nx: what the one call of next returned; dropped: the tree after the drop
            taken(nx, dropped) ==
                [panic |-> FALSE, root |-> dropped.root, size |-> dropped.size, ret |-> nx.ret]
            take(nx) ==
                taken(nx, drain_drop([it EXCEPT !.node_stack = nx.node_stack], nx.root, nx.size))
        IN  take(drain_next(it, new.root, new.size))

-----------------------------------------------------------------------------
(* IntersectionIterator (algorithm/intersection_iterator.rs).              *)

\* push_if_intersecting without the test: every pair is pushed.
push_unconditionally(todo_list, node1, node2) == push(todo_list, <<node1, node2>>)

\* IntersectionIterator::push_if_intersecting
push_if_intersecting(todo_list, node1, node2) ==
    IF intersects(node_envelope(node1), node_envelope(node2))
    THEN push(todo_list, <<node1, node2>>)
    ELSE todo_list

\* push_if_intersecting(node1s[i], node2s[j]) for i, and within i for j, in turn
RECURSIVE push_each_if_intersecting(_, _, _, _)
push_each_if_intersecting(todo_list, node1s, node2s, j) ==
    IF node1s = <<>> THEN todo_list
    ELSE IF j > Len(node2s)
    THEN push_each_if_intersecting(todo_list, Tail(node1s), node2s, 1)
    ELSE push_each_if_intersecting(
            push_if_intersecting(todo_list, Head(node1s), node2s[j]), node1s, node2s, j + 1)

\* IntersectionIterator::add_intersecting_children
add_intersecting_children(todo_list, parent1, parent2) ==
    IF ~intersects(parent1.envelope, parent2.envelope) THEN todo_list
    ELSE
    LET meets_parent2(c1) == intersects(node_envelope(c1), parent2.envelope)
        meets_parent1(c2) == intersects(node_envelope(c2), parent1.envelope)
    IN  push_each_if_intersecting(todo_list,
                                  SelectSeq(parent1.children, meets_parent2),
                                  SelectSeq(parent2.children, meets_parent1), 1)

\* IntersectionIterator::next called until it returns None: the pairs
\* yielded, in order (the last element of todo_list is popped first).
RECURSIVE intersection_next(_)
intersection_next(todo_list) ==
    IF todo_list = <<>> THEN <<>>
    ELSE
    LET next == todo_list[Len(todo_list)]
        rest == SubSeq(todo_list, 1, Len(todo_list) - 1)
    IN  CASE next[1].leaf /\ next[2].leaf ->
                <<<<next[1].t, next[2].t>>>> \o intersection_next(rest)
          [] next[1].leaf /\ ~next[2].leaf ->
                intersection_next(
                    push_each_if_intersecting(rest, <<next[1]>>, next[2].children, 1))
          [] ~next[1].leaf /\ next[2].leaf ->
                intersection_next(
                    push_each_if_intersecting(rest, next[1].children, <<next[2]>>, 1))
          [] ~next[1].leaf /\ ~next[2].leaf ->
                intersection_next(add_intersecting_children(rest, next[1], next[2]))

\* RTree::intersection_candidates_with_other_tree, collected
intersection_candidates_with_other_tree(tree_root, other_root) ==
    intersection_next(add_intersecting_children(<<>>, tree_root, other_root))

-----------------------------------------------------------------------------
(* Nearest neighbour (algorithm/nearest_neighbor.rs, aabb.rs).             *)

\* AABB::min_max_dist_2
min_max_dist_2(e, point) ==
    LET l == sub(e.lower, point)
        u == sub(e.upper, point)
        lo2(i) == min_inline(l[i] * l[i], u[i] * u[i])
        hi2(i) == max_inline(l[i] * l[i], u[i] * u[i])
        diff(i) == hi2(i) - lo2(i)
        \* "if diff >= max_diff.0" keeps the last axis of maximal diff
        at == CHOOSE i \in 1 .. DIMENSIONS :
                /\ \A j \in 1 .. DIMENSIONS : diff(j) <= diff(i)
                /\ \A j \in (i + 1) .. DIMENSIONS : diff(j) < diff(i)
        result == collect([i \in 1 .. DIMENSIONS |-> IF i = at THEN lo2(i) ELSE hi2(i)])
    IN  fold_sum(result, DIMENSIONS)

RTreeNodeDistanceWrapper(node, distance) == [node |-> node, distance |-> distance]

\* extend_heap of nearest_neighbor_inner: <<nodes, min_max_distance>>.
RECURSIVE extend_heap(_, _, _, _)
extend_heap(nodes, source, query_point, min_max_distance) ==
    IF source = <<>> THEN <<nodes, min_max_distance>>
    ELSE
    LET child == Head(source)
        distance_if_less_or_equal ==
            IF child.leaf
            THEN distance_2_if_less_or_equal(child.t, query_point, min_max_distance)
            ELSE LET distance == aabb_distance_2(child.envelope, query_point)
                 IN  IF distance <= min_max_distance THEN Some(distance) ELSE None
    IN  IF distance_if_less_or_equal # None
        THEN extend_heap(
                push(nodes, RTreeNodeDistanceWrapper(child, distance_if_less_or_equal[1])),
                Tail(source), query_point,
                min_inline(min_max_distance, min_max_dist_2(node_envelope(child), query_point)))
        ELSE extend_heap(nodes, Tail(source), query_point, min_max_distance)

\* The heap's pop: any entry of least distance (the order among equal
\* distances is not specified by BinaryHeap).
\* The pop of a max heap: partial_cmp without the inverse comparison.
heap_peeks_greatest(nodes) ==
    {i \in DOMAIN nodes : \A j \in DOMAIN nodes : nodes[i].distance >= nodes[j].distance}

heap_peeks(nodes) ==
    {i \in DOMAIN nodes : \A j \in DOMAIN nodes : nodes[i].distance <= nodes[j].distance}

heap_remove(nodes, i) == SubSeq(nodes, 1, i - 1) \o SubSeq(nodes, i + 1, Len(nodes))

\* The while loop of nearest_neighbor_inner: the set of results it can
\* return, each an Option of <<t, distance>>.
RECURSIVE nearest_neighbor_loop(_, _, _)
nearest_neighbor_loop(nodes, query_point, smallest_min_max) ==
    IF nodes = <<>> THEN {None}
    ELSE UNION {
        LET current == nodes[i]
            rest == heap_remove(nodes, i)
        IN  IF current.node.leaf
            THEN {Some(<<current.node.t, current.distance>>)}
            ELSE LET ext == extend_heap(rest, current.node.children, query_point,
                                        smallest_min_max)
                 IN  nearest_neighbor_loop(ext[1], query_point, ext[2])
        : i \in heap_peeks(nodes)}

nearest_neighbor_inner(seed_nodes, query_point) ==
    LET ext == extend_heap(<<>>, seed_nodes, query_point, MaxScalar)
    IN  nearest_neighbor_loop(ext[1], query_point, ext[2])

\* NearestNeighborDistance2Iterator: extend_heap without pruning
RECURSIVE iterator_extend_heap(_, _, _)
iterator_extend_heap(nodes, children, query_point) ==
    IF children = <<>> THEN nodes
    ELSE
    LET child == Head(children)
        distance == IF child.leaf THEN item_distance_2(child.t, query_point)
                    ELSE aabb_distance_2(child.envelope, query_point)
    IN  iterator_extend_heap(push(nodes, RTreeNodeDistanceWrapper(child, distance)),
                             Tail(children), query_point)

\* NearestNeighborDistance2Iterator::next, first call: the possible results.
RECURSIVE nearest_neighbor_iter_next(_, _)
nearest_neighbor_iter_next(nodes, query_point) ==
    IF nodes = <<>> THEN {None}
    ELSE UNION {
        LET current == nodes[i]
            rest == heap_remove(nodes, i)
        IN  IF current.node.leaf
            THEN {Some(<<current.node.t, current.distance>>)}
            ELSE nearest_neighbor_iter_next(
                    iterator_extend_heap(rest, current.node.children, query_point),
                    query_point)
        : i \in heap_peeks(nodes)}

\* The heap's pop, one index for each distinct entry it can return.
heap_pops(nodes) ==
    {i \in heap_peeks(nodes) : \A j \in heap_peeks(nodes) : j < i => nodes[j] # nodes[i]}

\* NearestNeighborDistance2Iterator::next called until it returns None: the
\* set of sequences of <<t, distance>> it can yield.
RECURSIVE nearest_neighbor_iter_collect(_, _)
nearest_neighbor_iter_collect(nodes, query_point) ==
    IF nodes = <<>> THEN {<<>>}
    ELSE UNION {
        LET current == nodes[i]
            rest == heap_remove(nodes, i)
        IN  IF current.node.leaf
            THEN {<<<<current.node.t, current.distance>>>> \o later :
                    later \in nearest_neighbor_iter_collect(rest, query_point)}
            ELSE nearest_neighbor_iter_collect(
                    iterator_extend_heap(rest, current.node.children, query_point),
                    query_point)
        : i \in heap_pops(nodes)}

\* RTree::nearest_neighbor_iter_with_distance_2, collected
nearest_neighbor_iter_with_distance_2(tree_root, query_point) ==
    nearest_neighbor_iter_collect(
        iterator_extend_heap(<<>>, tree_root.children, query_point), query_point)

\* nearest_neighbor::nearest_neighbors: the nearest-neighbour iterator is
\* drained while the yielded distance equals the first yielded distance.
\* The set of sequences of items it can return.
nearest_neighbors(tree_root, query_point) ==
    {LET same == {k \in DOMAIN yielded :
                    \A j \in 1 .. k : yielded[j][2] = yielded[1][2]}
     IN  [k \in 1 .. Cardinality(same) |-> yielded[k][1]]
     : yielded \in nearest_neighbor_iter_with_distance_2(tree_root, query_point)}

\* RTree::nearest_neighbor: the set of results (Options of an item) it can
\* return.
nearest_neighbor(tree_root, tree_size, query_point) ==
    IF tree_size > 0
    THEN UNION {
            IF r # None THEN {Some(r[1][1])}
            ELSE {IF f = None THEN None ELSE Some(f[1][1]) :
                    f \in nearest_neighbor_iter_next(
                            iterator_extend_heap(<<>>, tree_root.children, query_point),
                            query_point)}
         : r \in nearest_neighbor_inner(tree_root.children, query_point)}
    ELSE {None}

\* The address of a leaf is its position in the tree: with_addresses labels
\* every item with the path leading to it, without_address removes the label.
RECURSIVE with_addresses(_, _)
with_addresses(node, path) ==
    IF node.leaf
    THEN Leaf([lower |-> node.t.lower, upper |-> node.t.upper, addr |-> path])
    ELSE [node EXCEPT !.children =
            collect([i \in DOMAIN node.children |->
                        with_addresses(node.children[i], Append(path, i))])]

without_address(t) == [lower |-> t.lower, upper |-> t.upper]

RECURSIVE without_addresses(_)
without_addresses(node) ==
    IF node.leaf
    THEN Leaf(without_address(node.t))
    ELSE [node EXCEPT !.children =
            collect([i \in DOMAIN node.children |-> without_addresses(node.children[i])])]

\* RTree::pop_nearest_neighbor: the set of outcomes [panic, root, size, ret].
pop_nearest_neighbor(tree_root, tree_size, query_point) ==
    LET addressed == with_addresses(tree_root, <<>>)
    IN  {IF neighbor = None
         THEN [panic |-> FALSE, root |-> tree_root, size |-> tree_size, ret |-> None]
         ELSE LET removal_function ==
                      SelectByAddressFunction(envelope_of(neighbor[1]), neighbor[1].addr)
                  removed(r) ==
                      [panic |-> r.panic,
                       root |-> without_addresses(r.root),
                       size |-> r.size,
                       ret |-> IF r.ret = None THEN None ELSE Some(without_address(r.ret[1]))]
              IN  removed(remove_with_selection_function(addressed, tree_size,
                                                         removal_function))
         : neighbor \in nearest_neighbor(addressed, tree_size, query_point)}

-----------------------------------------------------------------------------
(* OMT bulk loading (algorithm/bulk_load).  The f32 expressions are        *)
(* evaluated exactly: ceil(log_m x) and ceil(k^(1/d)) over the integers.   *)

div_up(dividend, divisor) == (dividend + divisor - 1) \div divisor

RECURSIVE powi(_, _)
powi(base, exponent) == IF exponent <= 0 THEN 1 ELSE base * powi(base, exponent - 1)

\* number_of_clusters.powf(1. / max_dimension).ceil()
RECURSIVE ceil_root(_, _, _)
ceil_root(k, d, c) == IF powi(c, d) >= k THEN c ELSE ceil_root(k, d, c + 1)

\* Called with more than MAX_SIZE elements, so depth >= 2.
calculate_number_of_clusters_on_axis(number_of_elements) ==
    LET max_size == MAX_SIZE
        depth == log_ceil_as_usize(number_of_elements, max_size)
        n_subtree == powi(max_size, depth - 1)
        number_of_clusters == div_up(number_of_elements, n_subtree)
    IN  ceil_root(number_of_clusters, DIMENSIONS, 1)

\* ClusterGroupIterator::new(..).collect(): ClusterGroupIterator::next until None.
RECURSIVE cluster_group_next(_, _, _)
cluster_group_next(remaining, slab_size, cluster_dimension) ==
    IF Len(remaining) = 0 THEN <<>>
    ELSE IF Len(remaining) <= slab_size THEN <<remaining>>
    ELSE
    LET parts == split_off(partition_envelopes(cluster_dimension, remaining, slab_size),
                           slab_size)
    IN  <<parts[1]>> \o cluster_group_next(parts[2], slab_size, cluster_dimension)

\* A ClusterGroupIterator whose slabs hold one element each.
ClusterGroupIterator_single_slabs(elements, number_of_clusters_on_axis, cluster_dimension) ==
    cluster_group_next(elements, 1, cluster_dimension)

\* A ClusterGroupIterator that stops after its first slab.
ClusterGroupIterator_first_slab(elements, number_of_clusters_on_axis, cluster_dimension) ==
    <<SubSeq(elements, 1, div_up(Len(elements), number_of_clusters_on_axis))>>

ClusterGroupIterator(elements, number_of_clusters_on_axis, cluster_dimension) ==
    cluster_group_next(elements, div_up(Len(elements), number_of_clusters_on_axis),
                       cluster_dimension)

PartitioningState(elements, current_axis) ==
    [elements |-> elements, current_axis |-> current_axis]

\* bulk_load_recursive, and PartitioningTask::next run until None
\* (partitioning_task), which collects the children of one node.
RECURSIVE bulk_load_recursive(_, _)
RECURSIVE partitioning_task(_, _, _)
partitioning_task(work_queue, depth, number_of_clusters_on_axis) ==
    IF work_queue = <<>> THEN <<>>
    ELSE
    LET next == work_queue[Len(work_queue)]
        rest == SubSeq(work_queue, 1, Len(work_queue) - 1)
    IN  IF next.current_axis = 0
        THEN <<bulk_load_recursive(next.elements, depth - 1)>>
             \o partitioning_task(rest, depth, number_of_clusters_on_axis)
        ELSE
        LET slabs == ClusterGroupIterator(next.elements, number_of_clusters_on_axis,
                                          next.current_axis - 1)
        IN  partitioning_task(
                rest \o collect([i \in DOMAIN slabs |->
                            PartitioningState(slabs[i], next.current_axis - 1)]),
                depth, number_of_clusters_on_axis)

bulk_load_recursive(elements, depth) ==
    LET m == MAX_SIZE
    IN  IF Len(elements) <= m
        THEN new_parent(collect([i \in DOMAIN elements |-> Leaf(elements[i])]))
        ELSE new_parent(partitioning_task(
                <<PartitioningState(elements, DIMENSIONS)>>, depth,
                calculate_number_of_clusters_on_axis(Len(elements))))

bulk_load_sequential(elements) ==
    LET m == MAX_SIZE
        depth == log_ceil_as_usize(Len(elements), m)
    IN  bulk_load_recursive(elements, depth)

\* ClusterGroupIterator::new
ClusterGroupIterator_new(elements, number_of_clusters_on_axis, cluster_dimension) ==
    [remaining |-> elements,
     slab_size |-> div_up(Len(elements), number_of_clusters_on_axis),
     cluster_dimension |-> cluster_dimension]

\* ClusterGroupIterator::next: the slab returned and the iterator afterwards.
ClusterGroupIterator_next(it) ==
    IF Len(it.remaining) = 0 THEN [slab |-> None, iter |-> it]
    ELSE IF Len(it.remaining) <= it.slab_size
    THEN [slab |-> Some(it.remaining), iter |-> [it EXCEPT !.remaining = <<>>]]
    ELSE
    LET cut(parts) == [slab |-> Some(parts[1]), iter |-> [it EXCEPT !.remaining = parts[2]]]
    IN  cut(split_off(partition_envelopes(it.cluster_dimension, it.remaining, it.slab_size),
                      it.slab_size))

\* PartitioningWorkItem of bulk_load_parallel
CreatePartitions(elements, current_axis) ==
    [item |-> "CreatePartitions", elements |-> elements, current_axis |-> current_axis]

CreatePartitionGroups(it) == [item |-> "CreatePartitionGroups", iter |-> it]

\* A pool.execute that queues the closure twice.
execute_twice(jobs, elements) ==
    jobs \o <<[elements |-> elements, state |-> "queued"],
              [elements |-> elements, state |-> "queued"]>>

\* pool.execute(closure): the closure that loads elements is queued in the
\* thread pool.
execute(jobs, elements) == Append(jobs, [elements |-> elements, state |-> "queued"])

\* One iteration of the while-let loop of partition_root_in_parallel on the
\* loader state l: the work queue, the closures queued and expected_children.
partition_step(l) ==
    LET next == l.queue[Len(l.queue)]
        rest == SubSeq(l.queue, 1, Len(l.queue) - 1)
        groups(nx) ==
            IF nx.slab = None THEN [l EXCEPT !.queue = rest]
            ELSE [l EXCEPT !.queue =
                    push(push(rest, CreatePartitionGroups(nx.iter)),
                         CreatePartitions(nx.slab[1], nx.iter.cluster_dimension))]
    IN  IF next.item = "CreatePartitions"
        THEN IF next.current_axis = 0
             THEN [l EXCEPT !.queue = rest,
                            !.jobs = execute(l.jobs, next.elements),
                            !.expected_children = l.expected_children + 1]
             ELSE [l EXCEPT !.queue =
                     push(rest, CreatePartitionGroups(
                                    ClusterGroupIterator_new(next.elements,
                                                             l.number_of_clusters_on_axis,
                                                             next.current_axis - 1)))]
        ELSE groups(ClusterGroupIterator_next(next.iter))

\* RTree::new_from_bulk_loading: [root, size]
new_from_bulk_loading(elements) ==
    LET size0 == Len(elements)
    IN  [root |-> IF size0 = 0 THEN new_root ELSE bulk_load_sequential(elements),
         size |-> size0]

-----------------------------------------------------------------------------
(* The tree as a state machine: one action per public operation of RTree   *)
(* and per step of a DrainIterator.                                        *)

\* verify_parameters (params.rs): the assertions hold
verify_parameters(p) ==
    /\ p.MAX_SIZE >= 4
    /\ p.MIN_SIZE <= (p.MAX_SIZE + 1) \div 2
    /\ p.REINSERTION_COUNT < p.MAX_SIZE - p.MIN_SIZE
    /\ DIMENSIONS > 1

ParamSets ==
    {p \in [MAX_SIZE : 4 .. MaxMaxSize, MIN_SIZE : 1 .. MaxMaxSize,
            REINSERTION_COUNT : 0 .. MaxMaxSize] : verify_parameters(p)}

\* Rectangle::from_corners
Rectangle(corner_1, corner_2) ==
    LET aabb == from_corners(corner_1, corner_2)
    IN  [lower |-> aabb.lower, upper |-> aabb.upper]

\* The items and query points the operations are called with: a point item
\* that lies on the edge of a rectangle item, a query point inside both and
\* one outside both.
Items ==
    {Rectangle(<<1, 1>>, <<1, 1>>), Rectangle(<<0, 0>>, <<1, MaxCoord>>)}

QueryPoints == {<<1, 1>>, <<MaxCoord, 0>>}

Selections ==
    {SelectAllFunc,
     SelectInEnvelopeFunction(AABB(<<1, 1>>, <<MaxCoord, MaxCoord>>)),
     SelectInEnvelopeFuncIntersecting(AABB(<<0, 0>>, <<0, 0>>))}

RECURSIVE SeqsUpTo(_, _)
SeqsUpTo(S, n) ==
    IF n = 0 THEN {<<>>}
    ELSE LET shorter == SeqsUpTo(S, n - 1)
         IN  shorter \cup {Append(xs, x) : xs \in {ys \in shorter : Len(ys) = n - 1}, x \in S}

NoDrain == [active |-> FALSE]

\* No call of bulk_load_parallel is in progress.
NoLoad == [phase |-> "none"]

\* The last call made: its name, its argument and what it returned; a call
\* that panicked is recorded as "panic" with the name of the call.
Call(op, arg, ret) == [op |-> op, arg |-> arg, ret |-> ret]

\* The bag of the elements of a sequence.
BagOf(s) ==
    [x \in {s[i] : i \in DOMAIN s} |-> Cardinality({i \in DOMAIN s : s[i] = x})]

Idle == ~drain.active /\ last.op # "panic"

\* The calls made on the tree since new: only inserts, of the bag inserted,
\* or other calls as well.
OnlyInserts(inserted) == [only_inserts |-> TRUE, inserted |-> inserted]

OtherCalls == [only_inserts |-> FALSE, inserted |-> EmptyBag]

\* RTree::new_with_params
Init ==
    /\ params \in ParamSets
    /\ origin = "new"
    /\ history = OnlyInserts(EmptyBag)
    /\ root = new_root
    /\ size = 0
    /\ drain = NoDrain
    /\ loader = NoLoad
    /\ last = Call("new", None, None)

\* RTree::bulk_load_with_params
BulkLoad(elements) ==
    /\ last.op = "new"
    /\ LET loaded == new_from_bulk_loading(elements)
       IN  /\ root' = loaded.root
           /\ size' = loaded.size
    /\ last' = Call("bulk_load", elements, None)
    /\ origin' = "bulk_load"
    /\ history' = OtherCalls
    /\ UNCHANGED <<loader, params, drain>>

\* RTree::insert
Insert(t) ==
    /\ Idle
    /\ size < MaxItems
    /\ \E r \in {rstar_insert(root, t)} :
           /\ root' = r.root
           /\ size' = IF r.panic THEN size ELSE size + 1
           /\ last' = IF r.panic THEN Call("panic", t, Some("insert"))
                      ELSE Call("insert", t, None)
    /\ history' = IF history.only_inserts
                  THEN OnlyInserts(history.inserted (+) SetToBag({t}))
                  ELSE history
    /\ UNCHANGED <<loader, params, origin, drain>>

Removed(op, arg, r) ==
    /\ root' = r.root
    /\ size' = r.size
    /\ last' = IF r.panic THEN Call("panic", arg, Some(op)) ELSE Call(op, arg, r.ret)
    /\ history' = OtherCalls
    /\ UNCHANGED <<loader, params, origin, drain>>

\* RTree::remove
Remove(t) ==
    /\ Idle
    /\ Removed("remove", t, remove_with_selection_function(root, size, SelectEqualsFunction(t)))

\* RTree::remove_at_point
RemoveAtPoint(point) ==
    /\ Idle
    /\ Removed("remove_at_point", point,
               remove_with_selection_function(root, size, SelectAtPointFunction(point)))

\* RTree::pop_nearest_neighbor
PopNearestNeighbor(query_point) ==
    /\ Idle
    /\ \E r \in pop_nearest_neighbor(root, size, query_point) :
            Removed("pop_nearest_neighbor", query_point, r)

\* RTree::drain_with_selection_function (drain, drain_in_envelope, ...): the
\* iterator is created; original and yielded record the items of the tree
\* at that moment and the items yielded since.
DrainNew(function) ==
    /\ Idle
    /\ LET new == drain_new(root, size, function)
       IN  /\ root' = new.root
           /\ size' = new.size
           /\ drain' = IF new.panic THEN NoDrain
                       ELSE [active |-> TRUE,
                             node_stack |-> new.node_stack,
                             original_size |-> new.original_size,
                             removal_function |-> function,
                             original |-> iter(root),
                             yielded |-> <<>>]
           /\ last' = IF new.panic THEN Call("panic", function, Some("drain"))
                      ELSE Call("drain", function, None)
    /\ history' = OtherCalls
    /\ UNCHANGED <<loader, params, origin>>

\* DrainIterator::next
DrainNext ==
    /\ drain.active
    /\ \E nx \in {drain_next(drain, root, size)} :
           /\ root' = nx.root
           /\ size' = nx.size
           /\ drain' = [drain EXCEPT !.node_stack = nx.node_stack,
                                     !.yielded = IF nx.ret = None THEN @
                                                 ELSE Append(@, nx.ret[1])]
           /\ last' = Call("next", None, nx.ret)
    /\ UNCHANGED <<loader, params, origin, history>>

\* Drop for DrainIterator.  The call records the number of items the iterator
\* had yielded.
DrainDrop ==
    /\ drain.active
    /\ LET dropped == drain_drop(drain, root, size)
       IN  /\ root' = dropped.root
           /\ size' = dropped.size
    /\ drain' = NoDrain
    /\ last' = Call("drop", Len(drain.yielded), None)
    /\ UNCHANGED <<loader, params, origin, history>>

\* mem::forget of a DrainIterator: it is never dropped.  The call records the
\* number of items the iterator had yielded and whether it had been consumed
\* to its end.
DrainForget ==
    /\ drain.active
    /\ drain' = NoDrain
    /\ last' = Call("forget", Len(drain.yielded), Some(drain.node_stack = <<>>))
    /\ UNCHANGED <<loader, params, origin, history, root, size>>

Next ==
    \/ \E elements \in SeqsUpTo(Items, MaxItems) : BulkLoad(elements)
    \/ \E t \in Items : Insert(t)
    \/ \E t \in Items : Remove(t)
    \/ \E point \in QueryPoints : RemoveAtPoint(point)
    \/ \E query_point \in QueryPoints : PopNearestNeighbor(query_point)
    \/ \E function \in Selections : DrainNew(function)
    \/ DrainNext
    \/ DrainDrop
    \/ DrainForget

Spec == Init /\ [][Next]_vars

-----------------------------------------------------------------------------
(* Construction with any declared parameter set: verify_parameters runs    *)
(* first in new_with_params and in new_from_bulk_loading.                  *)

\* The implementations of RTreeParams a program may declare, whether
\* verify_parameters accepts them or not.
DeclaredParams ==
    [MAX_SIZE : 0 .. MaxMaxSize + 1, MIN_SIZE : 0 .. MaxMaxSize,
     REINSERTION_COUNT : 0 .. MaxMaxSize]

\* A parameter set has been declared and no tree constructed yet.
ConstructInit ==
    /\ params \in DeclaredParams
    /\ origin = "new"
    /\ history = OnlyInserts(EmptyBag)
    /\ root = new_root
    /\ size = 0
    /\ drain = NoDrain
    /\ loader = NoLoad
    /\ last = Call("declare", None, None)

\* RTree::new_with_params
NewWithParams ==
    /\ last.op = "declare"
    /\ last' = IF verify_parameters(params) THEN Call("new", None, None)
               ELSE Call("panic", None, Some("new"))
    /\ UNCHANGED <<loader, params, origin, history, root, size, drain>>

\* RTree::bulk_load_with_params
BulkLoadWithParams(elements) ==
    /\ last.op = "declare"
    /\ IF verify_parameters(params)
       THEN /\ \E loaded \in {new_from_bulk_loading(elements)} :
                    /\ root' = loaded.root
                    /\ size' = loaded.size
            /\ last' = Call("bulk_load", elements, None)
            /\ origin' = "bulk_load"
            /\ history' = OtherCalls
       ELSE /\ last' = Call("panic", elements, Some("bulk_load"))
            /\ UNCHANGED <<origin, history, root, size>>
    /\ UNCHANGED <<loader, params, drain>>

ConstructNext ==
    \/ NewWithParams
    \/ \E elements \in SeqsUpTo(Items, 2) : BulkLoadWithParams(elements)

ConstructSpec == ConstructInit /\ [][ConstructNext]_vars

-----------------------------------------------------------------------------
(* The queries of RTree (&self methods), called on trees built by insert   *)
(* calls or by bulk_load and then, possibly, one removal; last records the *)
(* query and what it returned.                                             *)

\* The items of the queried trees: a point item on the edge of a rectangle
\* item, and a segment away from both.
QueryItems == Items \cup {Rectangle(<<MaxCoord, 0>>, <<MaxCoord, 1>>)}

\* The envelopes the queries are called with: one that holds the point item
\* and touches the two others on its boundary, one that is the rectangle
\* item's envelope, one that lies inside the root's envelope and meets no item.
Envelopes ==
    {AABB(<<1, 1>>, <<MaxCoord, MaxCoord>>),
     AABB(<<0, 0>>, <<1, MaxCoord>>),
     AABB(<<MaxCoord, MaxCoord>>, <<MaxCoord, MaxCoord>>)}

\* The squared radii locate_within_distance is called with: from a query
\* point an item lies at squared distance 0, 1 or 2.
SquaredRadii == {0, 1}

\* A call that builds the tree has returned and no query has been made yet.
\* The queries take &self and leave the tree as it is, so the trees the
\* queries meet are the trees the building calls leave.
Built == last.op \in {"new", "insert", "bulk_load", "remove"}

\* RTree::insert on a tree that has only seen inserts
InsertForQuery(t) == Built /\ history.only_inserts /\ Insert(t)

\* RTree::remove, once, on a tree that inserts or bulk_load have built
RemoveForQuery(t) == last.op \in {"insert", "bulk_load"} /\ Remove(t)

\* A query called on a built tree returned ret: the tree is unchanged.
Queried(op, arg, ret) ==
    /\ Built
    /\ last' = Call(op, arg, ret)
    /\ UNCHANGED <<loader, params, origin, history, root, size, drain>>

\* RTree::locate_in_envelope, collected
LocateInEnvelope(envelope) ==
    Queried("locate_in_envelope", envelope, locate_in_envelope(root, envelope))

\* RTree::locate_in_envelope_intersecting, collected
LocateInEnvelopeIntersecting(envelope) ==
    Queried("locate_in_envelope_intersecting", envelope,
            SelectionIterator(root, SelectInEnvelopeFuncIntersecting(envelope)))

\* RTree::locate_all_at_point, collected
LocateAllAtPoint(point) ==
    Queried("locate_all_at_point", point,
            SelectionIterator(root, SelectAtPointFunction(point)))

\* RTree::locate_at_point: self.locate_all_at_point(point).next()
LocateAtPoint(point) ==
    \E all \in {SelectionIterator(root, SelectAtPointFunction(point))} :
        Queried("locate_at_point", point, IF all = <<>> THEN None ELSE Some(Head(all)))

\* RTree::locate_within_distance, collected
LocateWithinDistance(query_point, max_squared_radius) ==
    /\ Built
    /\ \E r \in locate_within_distance(root, query_point, max_squared_radius) :
           last' = IF r.panic
                   THEN Call("panic", <<query_point, max_squared_radius>>,
                             Some("locate_within_distance"))
                   ELSE Call("locate_within_distance",
                             <<query_point, max_squared_radius>>, r.ret)
    /\ UNCHANGED <<loader, params, origin, history, root, size, drain>>

\* RTree::nearest_neighbor_iter_with_distance_2, collected
NearestNeighborIter(query_point) ==
    \E yielded \in nearest_neighbor_iter_with_distance_2(root, query_point) :
        Queried("nearest_neighbor_iter_with_distance_2", query_point, yielded)

\* RTree::nearest_neighbor
NearestNeighbor(query_point) ==
    \E neighbor \in nearest_neighbor(root, size, query_point) :
        Queried("nearest_neighbor", query_point, neighbor)

\* RTree::nearest_neighbors
NearestNeighbors(query_point) ==
    \E neighbors \in nearest_neighbors(root, query_point) :
        Queried("nearest_neighbors", query_point, neighbors)

\* insert called with the elements of xs in turn
insert_all(tree_root, xs) ==
    LET tree[n \in 0 .. Len(xs)] ==
            IF n = 0 THEN tree_root ELSE rstar_insert(tree[n - 1], xs[n]).root
    IN  tree[Len(xs)]

\* The items of the other trees, in the order they are inserted or loaded.
OtherItems ==
    <<Rectangle(<<MaxCoord, 0>>, <<MaxCoord, 1>>), Rectangle(<<1, 1>>, <<1, 1>>),
      Rectangle(<<0, 0>>, <<1, MaxCoord>>), Rectangle(<<MaxCoord, 0>>, <<MaxCoord, 1>>),
      Rectangle(<<1, 1>>, <<1, 1>>)>>

\* The other trees intersection_candidates_with_other_tree is called with:
\* empty, of height one and, from MAX_SIZE + 1 items on, of height two,
\* built by inserts or by bulk_load.  The iterator reads nodes and
\* envelopes only; the other trees are built under the parameters of this
\* tree.
OtherTrees ==
    UNION {{insert_all(new_root, SubSeq(OtherItems, 1, n)),
            new_from_bulk_loading(SubSeq(OtherItems, 1, n)).root}
           : n \in {0, 1, 3, Len(OtherItems)}}

\* The longest Vec bulk_load is called with: with MAX_SIZE = 4 the clusters
\* of 17 elements are the first to differ in whether they exceed MAX_SIZE.
MaxLoad == 17

\* The Vecs bulk_load is called with: n points laid out row by row on the
\* grid of coordinates, starting at its k-th point.
Loads ==
    {[i \in 1 .. n |->
        Rectangle(<<(i + k) % (MaxCoord + 1), ((i + k) \div (MaxCoord + 1)) % (MaxCoord + 1)>>,
                  <<(i + k) % (MaxCoord + 1), ((i + k) \div (MaxCoord + 1)) % (MaxCoord + 1)>>)]
     : n \in 0 .. MaxLoad, k \in 0 .. 1}

\* RTree::intersection_candidates_with_other_tree, collected
IntersectionCandidates ==
    \E other \in OtherTrees :
        Queried("intersection_candidates_with_other_tree", other,
                intersection_candidates_with_other_tree(root, other))

\* The calls that build the trees the queries are called on.
BuildNext ==
    \/ \E elements \in SeqsUpTo(QueryItems, MaxItems) : BulkLoad(elements)
    \/ \E t \in QueryItems : InsertForQuery(t)
    \/ \E t \in QueryItems : RemoveForQuery(t)

QueryNext ==
    \/ BuildNext
    \/ \E envelope \in Envelopes : LocateInEnvelope(envelope)
    \/ \E envelope \in Envelopes : LocateInEnvelopeIntersecting(envelope)
    \/ \E point \in QueryPoints : LocateAllAtPoint(point)
    \/ \E point \in QueryPoints : LocateAtPoint(point)
    \/ \E query_point \in QueryPoints, max_squared_radius \in SquaredRadii :
            LocateWithinDistance(query_point, max_squared_radius)

QuerySpec == Init /\ [][QueryNext]_vars

\* The nearest-neighbour queries, called on the same trees.
NearestNext ==
    \/ BuildNext
    \/ \E query_point \in QueryPoints : NearestNeighborIter(query_point)
    \/ \E query_point \in QueryPoints : NearestNeighbor(query_point)
    \/ \E query_point \in QueryPoints : NearestNeighbors(query_point)

NearestSpec == Init /\ [][NearestNext]_vars

\* The dual-tree query, called on the same trees.
IntersectNext == BuildNext \/ IntersectionCandidates

IntersectSpec == Init /\ [][IntersectNext]_vars

\* bulk_load called with longer Vecs.
LoadNext == \E elements \in Loads : BulkLoad(elements)

LoadSpec == Init /\ [][LoadNext]_vars

\* The largest MAX_SIZE and the longest Vec of the bulk loads with wider
\* nodes.
MaxWideSize == 5

MaxWideLoad == 21

WideParamSets ==
    {p \in [MAX_SIZE : 4 .. MaxWideSize, MIN_SIZE : 1 .. MaxWideSize,
            REINSERTION_COUNT : 0 .. MaxWideSize] : verify_parameters(p)}

\* RTree::new_with_params with the wider parameter sets
WideInit ==
    /\ params \in WideParamSets
    /\ origin = "new"
    /\ history = OnlyInserts(EmptyBag)
    /\ root = new_root
    /\ size = 0
    /\ drain = NoDrain
    /\ loader = NoLoad
    /\ last = Call("new", None, None)

\* The Vecs these bulk loads are called with, laid out as in Loads.
WideLoads ==
    {[i \in 1 .. n |->
        Rectangle(<<(i + k) % (MaxCoord + 1), ((i + k) \div (MaxCoord + 1)) % (MaxCoord + 1)>>,
                  <<(i + k) % (MaxCoord + 1), ((i + k) \div (MaxCoord + 1)) % (MaxCoord + 1)>>)]
     : n \in 0 .. MaxWideLoad, k \in 0 .. 1}

WideLoadNext == \E elements \in WideLoads : BulkLoad(elements)

WideLoadSpec == WideInit /\ [][WideLoadNext]_vars

\* The worker threads of the ThreadPool and the longest Vec the parallel
\* loader is called with.
NumThreads == 2

MaxParallelLoad == 6

ParallelLoads ==
    {[i \in 1 .. n |->
        Rectangle(<<i % (MaxCoord + 1), (i \div (MaxCoord + 1)) % (MaxCoord + 1)>>,
                  <<i % (MaxCoord + 1), (i \div (MaxCoord + 1)) % (MaxCoord + 1)>>)]
     : n \in 1 .. MaxParallelLoad}

\* bulk_load_parallel is called as the root_loader of new_from_bulk_loading.
\* With at most MAX_SIZE elements it loads sequentially and returns; with more
\* it creates the channel and enters partition_root_in_parallel.
BulkLoadParallel(elements) ==
    /\ last.op = "new"
    /\ loader.phase = "none"
    /\ IF Len(elements) <= MAX_SIZE
       THEN /\ root' = bulk_load_sequential(elements)
            /\ size' = Len(elements)
            /\ loader' = [phase |-> "done", elements |-> elements, queue |-> <<>>,
                          number_of_clusters_on_axis |-> 0, expected_children |-> 0,
                          jobs |-> <<>>, channel |-> <<>>, received |-> <<>>]
            /\ last' = Call("bulk_load_parallel", elements, None)
       ELSE /\ loader' = [phase |-> "partitioning", elements |-> elements,
                          queue |-> <<CreatePartitions(elements, DIMENSIONS)>>,
                          number_of_clusters_on_axis |->
                              calculate_number_of_clusters_on_axis(Len(elements)),
                          expected_children |-> 0,
                          jobs |-> <<>>, channel |-> <<>>, received |-> <<>>]
            /\ last' = Call("partition_root_in_parallel", elements, None)
            /\ UNCHANGED <<root, size>>
    /\ origin' = "bulk_load"
    /\ history' = OtherCalls
    /\ UNCHANGED <<params, drain>>

\* The calling thread runs one iteration of the loop of
\* partition_root_in_parallel.
PartitionStep ==
    /\ loader.phase = "partitioning"
    /\ loader.queue # <<>>
    /\ loader' = partition_step(loader)
    /\ UNCHANGED <<params, origin, history, root, size, drain, last>>

\* partition_root_in_parallel returns expected_children and the calling
\* thread starts to receive.
PartitionReturn ==
    /\ loader.phase = "partitioning"
    /\ loader.queue = <<>>
    /\ loader' = [loader EXCEPT !.phase = "receiving"]
    /\ UNCHANGED <<params, origin, history, root, size, drain, last>>

\* A thread of the pool that is free takes the closure queued first.
WorkerTake ==
    /\ loader.phase \in {"partitioning", "receiving", "done"}
    /\ Cardinality({j \in DOMAIN loader.jobs : loader.jobs[j].state = "running"}) < NumThreads
    /\ \E i \in DOMAIN loader.jobs :
           /\ loader.jobs[i].state = "queued"
           /\ \A j \in 1 .. (i - 1) : loader.jobs[j].state # "queued"
           /\ loader' = [loader EXCEPT !.jobs[i].state = "running"]
    /\ UNCHANGED <<params, origin, history, root, size, drain, last>>

\* A worker loads its elements sequentially and sends the subtree on its
\* copy of the result channel.
WorkerSend(i) ==
    /\ loader.phase \in {"partitioning", "receiving", "done"}
    /\ i \in DOMAIN loader.jobs
    /\ loader.jobs[i].state = "running"
    /\ loader' = [loader EXCEPT
                    !.jobs[i].state = "sent",
                    !.channel = Append(@, bulk_load_sequential(loader.jobs[i].elements))]
    /\ UNCHANGED <<params, origin, history, root, size, drain, last>>

\* receiver.iter().take(expected_number_of_children): the calling thread
\* receives one subtree.
Receive ==
    /\ loader.phase = "receiving"
    /\ Len(loader.received) < loader.expected_children
    /\ loader.channel # <<>>
    /\ loader' = [loader EXCEPT !.received = Append(@, Head(loader.channel)),
                                !.channel = Tail(@)]
    /\ UNCHANGED <<params, origin, history, root, size, drain, last>>

\* The take is exhausted: bulk_load_parallel returns the parent of the
\* subtrees received.
BulkLoadParallelReturn ==
    /\ loader.phase = "receiving"
    /\ Len(loader.received) = loader.expected_children
    /\ root' = new_parent(loader.received)
    /\ size' = Len(loader.elements)
    /\ loader' = [loader EXCEPT !.phase = "done"]
    /\ last' = Call("bulk_load_parallel", loader.elements, None)
    /\ UNCHANGED <<params, origin, history, drain>>

ParallelNext ==
    \/ \E elements \in ParallelLoads : BulkLoadParallel(elements)
    \/ PartitionStep
    \/ PartitionReturn
    \/ WorkerTake
    \/ \E i \in 1 .. MaxParallelLoad : WorkerSend(i)
    \/ Receive
    \/ BulkLoadParallelReturn

\* RTree::new_with_params; the loader reads MAX_SIZE only, so the parameter
\* sets that differ in REINSERTION_COUNT alone are left out.
ParallelInit == Init /\ REINSERTION_COUNT = 0

ParallelSpec == ParallelInit /\ [][ParallelNext]_vars

\* The calling thread and the threads of the pool keep running: a step of
\* either that stays possible is eventually taken.
ParallelFairSpec ==
    /\ ParallelSpec
    /\ WF_vars(PartitionStep)
    /\ WF_vars(PartitionReturn)
    /\ WF_vars(WorkerTake)
    /\ WF_vars(\E i \in 1 .. MaxParallelLoad : WorkerSend(i))
    /\ WF_vars(Receive)
    /\ WF_vars(BulkLoadParallelReturn)

\* The selection functions the *_with_selection_function methods and
\* select_nodes are called with: the library's, and two that define
\* should_unpack_parent only.
SelectionFunctions ==
    {SelectAllFunc, SelectNoneFunc}
    \cup {SelectParentFunc(e) : e \in Envelopes}
    \cup {SelectInEnvelopeFunction(e) : e \in Envelopes}
    \cup {SelectInEnvelopeFuncIntersecting(e) : e \in Envelopes}
    \cup {SelectEqualsFunction(t) : t \in QueryItems}

\* The calls after which the visitor of select_nodes breaks; 0: never.
MaxBreak == 2

\* RTree::locate_with_selection_function, collected
LocateWithSelectionFunction(function) ==
    Queried("locate_with_selection_function", function, SelectionIterator(root, function))

\* select_nodes on the root of the tree, with a visitor that breaks at its
\* break_at-th call
SelectNodes(function, break_at) ==
    Queried("select_nodes", [func |-> function, break_at |-> break_at],
            select_nodes(root, function, break_at).visited)

\* RTree::drain_with_selection_function, consumed to the end and dropped
DrainWithSelectionFunction(function) ==
    /\ Built
    /\ \E r \in {drain_with_selection_function(root, size, function)} :
            Removed("drain_with_selection_function", function, r)

\* RTree::remove_with_selection_function
RemoveWithSelectionFunction(function) ==
    /\ Built
    /\ \E r \in {remove_with_selection_function(root, size, function)} :
            Removed("remove_with_selection_function", function, r)

SelectNext ==
    \/ BuildNext
    \/ \E function \in SelectionFunctions : LocateWithSelectionFunction(function)
    \/ \E function \in SelectionFunctions, break_at \in 0 .. MaxBreak :
            SelectNodes(function, break_at)
    \/ \E function \in SelectionFunctions : DrainWithSelectionFunction(function)
    \/ \E function \in SelectionFunctions : RemoveWithSelectionFunction(function)

SelectSpec == Init /\ [][SelectNext]_vars

\* The number of items of the trees that the recorded inserts grow.
MaxInserts == 12

\* RTree::new_with_params with parameters that reinsert
ReinsertInit == Init /\ REINSERTION_COUNT > 0

\* RTree::insert; the call records what RStarInsertionStrategy::insert did.
InsertRecorded(t) ==
    /\ last.op # "panic"
    /\ size < MaxInserts
    /\ \E r \in {rstar_insert(root, t)} :
           /\ root' = r.root
           /\ size' = IF r.panic THEN size ELSE size + 1
           /\ last' = IF r.panic THEN Call("panic", t, Some("insert"))
                      ELSE Call("insert", t, Some(r.events))
    /\ history' = OnlyInserts(history.inserted (+) SetToBag({t}))
    /\ UNCHANGED <<loader, params, origin, drain>>

\* The items the recorded inserts are called with: two items with disjoint
\* envelopes.
ReinsertItems ==
    {Rectangle(<<0, 0>>, <<1, MaxCoord>>), Rectangle(<<MaxCoord, 0>>, <<MaxCoord, 1>>)}

ReinsertNext == \E t \in ReinsertItems : InsertRecorded(t)

ReinsertSpec == ReinsertInit /\ [][ReinsertNext]_vars

\* The items of the parents that split is called on.
SplitItems == QueryItems \cup {Rectangle(<<0, 0>>, <<0, 0>>)}

\* The children of an overflowing parent of leaves: MAX_SIZE + 1 of them.
Overflowing ==
    {[i \in 1 .. (MAX_SIZE + 1) |-> Leaf(xs[i])] : xs \in [1 .. (MAX_SIZE + 1) -> SplitItems]}

\* split called on the root holding children: the root keeps the first group
\* and the call returns the new sibling.
SplitOverflowing(children) ==
    /\ last.op = "new"
    /\ \E r \in {split(new_parent(children))} :
           /\ root' = r[1]
           /\ last' = Call("split", new_parent(children), Some(r[2]))
    /\ UNCHANGED <<loader, params, origin, history, size, drain>>

SplitNext == \E children \in Overflowing : SplitOverflowing(children)

SplitSpec == Init /\ [][SplitNext]_vars

-----------------------------------------------------------------------------
(* What ParentNode::sanity_check asserts about a tree (node.rs), one       *)
(* operator per assertion.                                                 *)

\* The parents of the tree under node, each with its height (the root's is 1).
RECURSIVE parents_below(_, _)
parents_below(node, height) ==
    {[node |-> node, height |-> height]}
    \cup UNION {parents_below(node.children[i], height + 1) :
                    i \in {j \in DOMAIN node.children : ~node.children[j].leaf}}

\* The heights at which the tree holds a leaf (leaf_height of sanity_check_inner).
leaf_heights(tree_root) ==
    {p.height : p \in {q \in parents_below(tree_root, 1) :
                          \E i \in DOMAIN q.node.children : q.node.children[i].leaf}}

\* The envelope sanity_check_inner accumulates over the children of a parent:
\* the least lower and the greatest upper coordinate on every axis, and the
\* empty envelope's for no children.
union_of_envelopes(children) ==
    LET lowers(i) == {node_envelope(children[c]).lower[i] : c \in DOMAIN children}
                     \cup {MaxScalar}
        uppers(i) == {node_envelope(children[c]).upper[i] : c \in DOMAIN children}
                     \cup {MinScalar}
    IN  AABB([i \in 1 .. DIMENSIONS |-> CHOOSE x \in lowers(i) : \A y \in lowers(i) : x <= y],
             [i \in 1 .. DIMENSIONS |-> CHOOSE x \in uppers(i) : \A y \in uppers(i) : x >= y])

\* assert_eq!(self.envelope, envelope) in every parent
envelopes_sane(tree_root) ==
    \A p \in parents_below(tree_root, 1) :
        p.node.envelope = union_of_envelopes(p.node.children)

\* assert_eq!(height, *leaf_height) at every leaf
heights_sane(tree_root) == Cardinality(leaf_heights(tree_root)) <= 1

\* assert!(self.children.len() >= min_size) for height > 1 and
\* assert!(self.children.len() <= max_size)
sizes_sane(tree_root) ==
    \A p \in parents_below(tree_root, 1) :
        p.height > 1 => /\ Len(p.node.children) >= MIN_SIZE
                        /\ Len(p.node.children) <= MAX_SIZE

\* The number of leaves reachable from node.
RECURSIVE count_of_leaves(_)
count_of_leaves(node) ==
    IF node.leaf THEN 1
    ELSE fold_sum(collect([i \in DOMAIN node.children |-> count_of_leaves(node.children[i])]),
                  Len(node.children))

\* The items held by the leaves below node.
RECURSIVE items_below(_)
items_below(node) ==
    IF node.leaf THEN <<node.t>>
    ELSE IF node.children = <<>> THEN <<>>
    ELSE items_below(Head(node.children))
         \o items_below([node EXCEPT !.children = Tail(node.children)])

\* The bag of the items of the tree that Keep holds of.
ItemsWhere(Keep(_)) ==
    LET all == items_below(root)
    IN  [x \in {all[i] : i \in {j \in DOMAIN all : Keep(all[j])}} |->
            Cardinality({i \in DOMAIN all : all[i] = x})]

\* The operation named by last has completed and no drain iterator borrows
\* the tree any more, or the iterator has been consumed to its end.
Completed(ops) ==
    \/ ~drain.active /\ last.op \in ops
    \/ "drain" \in ops /\ ~drain.active /\ last.op = "drop"
    \/ "drain" \in ops /\ drain.active /\ last.op = "next" /\ last.ret = None

Removals == {"remove", "remove_at_point", "pop_nearest_neighbor"}

height(tree_root) == Cardinality({p.height : p \in parents_below(tree_root, 1)})

-----------------------------------------------------------------------------
(* The claims.                                                             *)

\* C1: after every completed insert, remove, remove_at_point,
\* pop_nearest_neighbor and drain (consumed to the end or dropped), on a tree
\* that started empty or bulk-loaded, the cached envelope of every parent, the
\* root included, is the union of the envelopes of its children; a root
\* without children has the empty envelope.
C1_EnvelopesCached ==
    Completed({"insert", "drain"} \cup Removals) =>
        /\ envelopes_sane(root)
        /\ (root.children = <<>> => root.envelope = new_empty)

\* A removal from a tree of height two has taken an item away and the
\* envelope of the root has shrunk to the other items.
C1_Witness ==
    /\ Completed(Removals \cup {"drain"})
    /\ height(root) = 2
    /\ size < MaxItems - 1
    /\ \E t \in Items : ~contains_envelope(root.envelope, envelope_of(t))

\* C2: after every completed insert, removal and drain on a tree that started
\* empty, all leaves are at the same depth below the root.
C2_LeavesAtOneDepth ==
    origin = "new" /\ Completed({"insert", "drain"} \cup Removals) => heights_sane(root)

\* On a tree that started empty and reinserts on overflow, the root
\* has grown by a split and a removal has then deleted an emptied parent.
C2_Witness ==
    /\ origin = "new"
    /\ params.REINSERTION_COUNT > 0
    /\ last.op \in Removals
    /\ last.ret # None
    /\ height(root) = 2
    /\ Len(root.children) = 1

\* C3: after every completed insert, removal and drain step on a tree that
\* started empty, every parent other than the root has at least MIN_SIZE and
\* at most MAX_SIZE children.
C3_ParentSizes ==
    origin = "new" /\ Completed({"insert", "drain"} \cup Removals) => sizes_sane(root)

\* C4: after every completed operation (new, bulk_load, insert, the removals
\* and a drain consumed to the end or dropped early) size() is the number of
\* leaves reachable from the root.
C4_SizeCountsLeaves ==
    Completed({"new", "bulk_load", "insert", "drain"} \cup Removals) =>
        size = count_of_leaves(root)

\* A drain over a bulk-loaded tree of height two was dropped after
\* yielding some of the items.
C4_Witness ==
    /\ origin = "bulk_load"
    /\ last.op = "drop"
    /\ last.arg >= 1
    /\ size >= 1
    /\ height(root) = 2

\* C5: after any sequence of insert calls on an initially empty tree (equal
\* items allowed) iter() yields exactly the multiset of the inserted items,
\* size() is the number of insert calls, and contains(t) is true exactly when
\* an item equal to t was inserted.
C5_InsertKeepsItems ==
    history.only_inserts /\ last.op \in {"new", "insert"} =>
        /\ BagOf(iter(root)) = history.inserted
        /\ size = BagCardinality(history.inserted)
        /\ \A t \in Items : contains(root, t) <=> BagIn(t, history.inserted)

\* Inserts alone have grown the tree to height two, one item was inserted
\* more than once and another never.
C5_Witness ==
    /\ history.only_inserts
    /\ last.op = "insert"
    /\ height(root) = 2
    /\ \E t \in Items : CopiesIn(t, history.inserted) >= 2
    /\ \E t \in Items : ~BagIn(t, history.inserted)

\* C6: for every input sequence xs (of any length, 0, 1 and lengths above
\* MAX_SIZE included) the set of items iter() yields on bulk_load(xs) is the
\* set of the items of xs, which is the set of any permutation of xs, and
\* size() is the length of xs.
C6_BulkLoadKeepsItems ==
    last.op = "bulk_load" =>
        /\ {iter(root)[i] : i \in DOMAIN iter(root)} = {last.arg[i] : i \in DOMAIN last.arg}
        /\ size = Len(last.arg)

\* More than MAX_SIZE elements, not all equal, have been bulk-loaded.
C6_Witness ==
    /\ last.op = "bulk_load"
    /\ Len(last.arg) > MAX_SIZE
    /\ Cardinality({last.arg[i] : i \in DOMAIN last.arg}) > 1
    /\ height(root) = 2

\* C7: remove(t) on a tree holding k >= 1 items equal to t returns one of
\* them and removes exactly that item: size() decreases by one, k - 1 items
\* equal to t and every other item remain.  With k = 0 it returns none and
\* leaves size() and the items unchanged.
C7_RemoveTakesOne ==
    [][\A t \in Items :
        Remove(t) =>
            LET before == BagOf(iter(root))
                after == BagOf(iter(root'))
            IN  /\ last'.op = "remove"
                /\ IF BagIn(t, before)
                   THEN /\ last'.ret # None
                        /\ item_eq(last'.ret[1], t)
                        /\ size' = size - 1
                        /\ after (+) SetToBag({t}) = before
                   ELSE /\ last'.ret = None
                        /\ size' = size
                        /\ after = before]_vars

\* C8: if a drain iterator yields j items and is then dropped, for any j up
\* to full consumption, no item is yielded twice, and afterwards the tree
\* holds the original items minus the yielded ones and size() is the original
\* size minus j; with SelectAll consumed to the end every item is yielded
\* once and size() is 0.
C8_DrainTakesYielded ==
    /\ [](drain.active => BagOf(drain.yielded) \sqsubseteq BagOf(drain.original))
    /\ [](/\ drain.active
          /\ drain.node_stack = <<>>
          /\ drain.removal_function = SelectAllFunc
          => /\ BagOf(drain.yielded) = BagOf(drain.original)
             /\ size = 0)
    /\ [][DrainDrop =>
            /\ BagOf(iter(root')) (+) BagOf(drain.yielded) = BagOf(drain.original)
            /\ size' = Len(drain.original) - Len(drain.yielded)]_vars

\* A drain over a tree of height two was dropped after it had yielded some
\* but not all of the items.
C8_Witness ==
    /\ last.op = "drop"
    /\ last.arg >= 2
    /\ size >= 2
    /\ height(root) = 2

\* C9: if a drain iterator is leaked, neither consumed to the end nor
\* dropped, right after construction or after any number of next() calls, the
\* tree is empty: the root has no children and the empty envelope, size() is
\* 0, and inserts and queries behave as on a newly created tree.
C9_LeakedDrainEmptiesTree ==
    last.op = "forget" /\ last.ret = Some(FALSE) =>
        /\ root.children = <<>>
        /\ root.envelope = new_empty
        /\ size = 0
        /\ iter(root) = iter(new_root)
        /\ \A t \in Items : /\ rstar_insert(root, t) = rstar_insert(new_root, t)
                            /\ contains(root, t) = contains(new_root, t)

\* A drain over a tree of several items was leaked after it had yielded one.
C9_Witness ==
    /\ last.op = "forget"
    /\ last.ret = Some(FALSE)
    /\ last.arg >= 1
    /\ history = OtherCalls
    /\ root = new_root

\* C10: for every parameter set accepted at construction (MIN_SIZE = 1 and
\* REINSERTION_COUNT = 0 included) every insert, removal, drain and
\* pop_nearest_neighbor call on a tree reachable from new or bulk_load
\* terminates without panicking.
C10_NoPanic == last.op # "panic"

\* C11: constructing a tree (new_with_params, bulk_load_with_params) panics
\* for every parameter set with MAX_SIZE < 4, MIN_SIZE < 1,
\* MIN_SIZE > (MAX_SIZE + 1) / 2, REINSERTION_COUNT >= MAX_SIZE - MIN_SIZE or
\* a point dimension below 2, and succeeds for every other parameter set.
C11_ConstructionChecks ==
    last.op \in {"new", "bulk_load", "panic"} =>
        (last.op = "panic" <=>
            \/ params.MAX_SIZE < 4
            \/ params.MIN_SIZE < 1
            \/ params.MIN_SIZE > (params.MAX_SIZE + 1) \div 2
            \/ params.REINSERTION_COUNT >= params.MAX_SIZE - params.MIN_SIZE
            \/ DIMENSIONS < 2)

\* C12: for every tree (built by inserts, bulk load, removals) and every
\* envelope E, locate_in_envelope(E) yields exactly the items t with
\* E.contains_envelope(t.envelope()), each once.
C12_LocateInEnvelope ==
    last.op = "locate_in_envelope" =>
        LET InE(t) == contains_envelope(last.arg, envelope_of(t))
        IN  BagOf(last.ret) = ItemsWhere(InE)

\* On a tree of height two the query has yielded an item from below one
\* parent while the envelope of another parent meets E and holds no item in E.
C12_Witness ==
    /\ last.op = "locate_in_envelope"
    /\ height(root) = 2
    /\ last.ret # <<>>
    /\ Len(last.ret) < size
    /\ \E i \in DOMAIN root.children :
            /\ intersects(last.arg, root.children[i].envelope)
            /\ \A j \in DOMAIN root.children[i].children :
                    ~contains_envelope(last.arg, node_envelope(root.children[i].children[j]))

\* C13: for every tree and every envelope E,
\* locate_in_envelope_intersecting(E) yields exactly the items t whose
\* envelope intersects E, each once; envelopes that only touch on a boundary
\* count as intersecting.
C13_LocateIntersecting ==
    last.op = "locate_in_envelope_intersecting" =>
        LET Meets(t) == /\ \A i \in 1 .. DIMENSIONS : t.lower[i] <= last.arg.upper[i]
                        /\ \A i \in 1 .. DIMENSIONS : last.arg.lower[i] <= t.upper[i]
        IN  BagOf(last.ret) = ItemsWhere(Meets)

\* The query has yielded an item that only touches E on its boundary, twice
\* as the item is twice in the tree, and has left another item out.
C13_Witness ==
    /\ last.op = "locate_in_envelope_intersecting"
    /\ height(root) = 2
    /\ Len(last.ret) < size
    /\ \E i, j \in DOMAIN last.ret :
            /\ i # j
            /\ last.ret[i] = last.ret[j]
            /\ \E d \in 1 .. DIMENSIONS :
                    \/ last.ret[i].upper[d] = last.arg.lower[d]
                    \/ last.ret[i].lower[d] = last.arg.upper[d]

\* C14: for every tree and every point p, locate_all_at_point(p) yields
\* exactly the items t with t.contains_point(p), each once, and
\* locate_at_point(p) returns none exactly when there is no such item.
C14_LocateAtPoint ==
    LET AtP(t) == \A i \in 1 .. DIMENSIONS : t.lower[i] <= last.arg[i] /\ last.arg[i] <= t.upper[i]
    IN  /\ last.op = "locate_all_at_point" => BagOf(last.ret) = ItemsWhere(AtP)
        /\ last.op = "locate_at_point" =>
                /\ last.ret = None <=> ItemsWhere(AtP) = EmptyBag
                /\ last.ret # None => AtP(last.ret[1]) /\ BagIn(last.ret[1], ItemsWhere(AtP))

\* locate_all_at_point has yielded two different items of a tree of height
\* two and left a third out.
C14_Witness ==
    /\ last.op = "locate_all_at_point"
    /\ height(root) = 2
    /\ Len(last.ret) < size
    /\ \E i, j \in DOMAIN last.ret : last.ret[i] # last.ret[j]

\* C15: for every tree, centre c and squared radius r2,
\* locate_within_distance(c, r2) yields exactly the items t with
\* t.distance_2(c) <= r2, each once, an item at distance exactly r2 included,
\* and it yields nothing on an empty tree: the call returns and does not panic.
C15_LocateWithinDistance ==
    /\ last.op = "locate_within_distance" =>
            LET Within(t) == item_distance_2(t, last.arg[1]) <= last.arg[2]
            IN  BagOf(last.ret) = ItemsWhere(Within)
    /\ last.op = "panic" => last.ret # Some("locate_within_distance")

\* C16: for every tree of n items and query point q, the nearest-neighbour
\* iterator yields each of the n items exactly once, in nondecreasing order
\* of distance_2(q), and the distance it reports with an item is the item's
\* squared distance to q.
C16_NearestNeighborIter ==
    last.op = "nearest_neighbor_iter_with_distance_2" =>
        LET All(t) == TRUE
            \* the distance from q to the rectangle t along axis i
            off(t, i) == IF last.arg[i] < t.lower[i] THEN t.lower[i] - last.arg[i]
                         ELSE IF last.arg[i] > t.upper[i] THEN last.arg[i] - t.upper[i]
                         ELSE 0
            items == [k \in DOMAIN last.ret |-> last.ret[k][1]]
        IN  /\ Len(last.ret) = size
            /\ BagOf(items) = ItemsWhere(All)
            /\ \A k \in DOMAIN last.ret :
                    last.ret[k][2] = off(items[k], 1) * off(items[k], 1)
                                     + off(items[k], 2) * off(items[k], 2)
            /\ \A k \in 1 .. Len(last.ret) - 1 : last.ret[k][2] <= last.ret[k + 1][2]

\* The iterator has yielded the items of a tree of height two at three
\* different distances, an item of the parent it opened last before an item
\* of a parent it opened earlier.
C16_Witness ==
    /\ last.op = "nearest_neighbor_iter_with_distance_2"
    /\ height(root) = 2
    /\ Cardinality({last.ret[k][2] : k \in DOMAIN last.ret}) = 3
    /\ last.ret[1][2] < last.ret[Len(last.ret)][2]
    /\ \E a, b \in DOMAIN root.children :
            /\ a # b
            /\ \E k \in DOMAIN root.children[a].children :
                    root.children[a].children[k] = Leaf(last.ret[1][1])
            /\ \E k \in DOMAIN root.children[a].children :
                    root.children[a].children[k] = Leaf(last.ret[Len(last.ret)][1])
            /\ \E k \in DOMAIN root.children[b].children, m \in 2 .. Len(last.ret) - 1 :
                    /\ root.children[b].children[k] = Leaf(last.ret[m][1])
                    /\ last.ret[1][2] < last.ret[m][2]
                    /\ last.ret[m][2] < last.ret[Len(last.ret)][2]

\* C17: nearest_neighbor(q) returns none exactly when the tree is empty; on
\* a non-empty tree it returns an item of the tree whose distance_2(q) is
\* minimal over all items, and the pruned fast path (nearest_neighbor_inner)
\* and the first element of the nearest-neighbour iterator both return an
\* item, at the same distance.
C17_NearestNeighbor ==
    last.op = "nearest_neighbor" =>
        LET all == items_below(root)
        IN  /\ last.ret = None <=> all = <<>>
            /\ last.ret # None =>
                    /\ \E k \in DOMAIN all : all[k] = last.ret[1]
                    /\ \A k \in DOMAIN all :
                            item_distance_2(last.ret[1], last.arg)
                                <= item_distance_2(all[k], last.arg)
            /\ all # <<>> =>
                    \A fast \in nearest_neighbor_inner(root.children, last.arg),
                       first \in nearest_neighbor_iter_next(
                                    iterator_extend_heap(<<>>, root.children, last.arg),
                                    last.arg) :
                        /\ fast # None
                        /\ first # None
                        /\ fast[1][2] = first[1][2]

\* nearest_neighbor has returned an item at a positive distance from a tree
\* of height two, and the root has a child farther away than that item: the
\* bound has pruned it or the heap has never opened it.
C17_Witness ==
    /\ last.op = "nearest_neighbor"
    /\ height(root) = 2
    /\ last.ret # None
    /\ item_distance_2(last.ret[1], last.arg) > 0
    /\ \E i \in DOMAIN root.children :
            aabb_distance_2(root.children[i].envelope, last.arg)
                > item_distance_2(last.ret[1], last.arg)

\* C18: nearest_neighbors(q) returns exactly the items of the tree whose
\* distance_2(q) equals the least distance_2(q) over the tree, each once
\* (all co-nearest items, compared by equality), and an empty collection on
\* an empty tree.
C18_NearestNeighbors ==
    last.op = "nearest_neighbors" =>
        LET all == items_below(root)
            Nearest(t) == \A k \in DOMAIN all :
                            item_distance_2(t, last.arg) <= item_distance_2(all[k], last.arg)
        IN  BagOf(last.ret) = ItemsWhere(Nearest)

\* nearest_neighbors has returned two different co-nearest items that lie
\* below different children of the root, and has left out a farther item.
C18_Witness ==
    /\ last.op = "nearest_neighbors"
    /\ height(root) = 2
    /\ Len(last.ret) < size
    /\ \E i, j \in DOMAIN last.ret, a, b \in DOMAIN root.children :
            /\ last.ret[i] # last.ret[j]
            /\ a # b
            /\ \E k \in DOMAIN root.children[a].children :
                    root.children[a].children[k] = Leaf(last.ret[i])
            /\ \A k \in DOMAIN root.children[a].children :
                    root.children[a].children[k] # Leaf(last.ret[j])
            /\ \E k \in DOMAIN root.children[b].children :
                    root.children[b].children[k] = Leaf(last.ret[j])

\* C19: for any two trees A and B, of any heights, either possibly empty,
\* intersection_candidates_with_other_tree yields exactly the pairs (a, b)
\* of an item of A and an item of B whose envelopes intersect, each such
\* pair exactly once.
C19_IntersectionCandidates ==
    last.op = "intersection_candidates_with_other_tree" =>
        LET items_a == items_below(root)
            items_b == items_below(last.arg)
            Meet(a, b) == /\ \A i \in 1 .. DIMENSIONS : a.lower[i] <= b.upper[i]
                          /\ \A i \in 1 .. DIMENSIONS : b.lower[i] <= a.upper[i]
            meeting == {ij \in (DOMAIN items_a) \X (DOMAIN items_b) :
                            Meet(items_a[ij[1]], items_b[ij[2]])}
            pair_at(ij) == <<items_a[ij[1]], items_b[ij[2]]>>
        IN  BagOf(last.ret) =
                [pair \in {pair_at(ij) : ij \in meeting} |->
                    Cardinality({ij \in meeting : pair_at(ij) = pair})]

\* The iterator has yielded some and not all pairs of two trees of height
\* two, and has passed over a pair of parents whose envelopes are disjoint.
C19_Witness ==
    /\ last.op = "intersection_candidates_with_other_tree"
    /\ height(root) = 2
    /\ height(last.arg) = 2
    /\ last.ret # <<>>
    /\ Len(last.ret) < size * Len(items_below(last.arg))
    /\ \E i \in DOMAIN root.children, j \in DOMAIN last.arg.children :
            ~intersects(root.children[i].envelope, last.arg.children[j].envelope)

\* C20: for every number of items n and every valid parameter set, the tree
\* bulk_load returns is balanced: all of its leaves are at the same depth.
C20_BulkLoadBalanced ==
    last.op = "bulk_load" => Cardinality(leaf_heights(root)) <= 1

\* C21: after every completed insert, removal and drain on a tree that
\* started empty, a tree holding more than MAX_SIZE items has a root with
\* between 2 and MAX_SIZE children, and a tree holding at most MAX_SIZE items
\* has the root as its only parent: all children of the root are leaves.
C21_RootShape ==
    origin = "new" /\ Completed({"insert", "drain"} \cup Removals) =>
        IF count_of_leaves(root) > MAX_SIZE
        THEN Len(root.children) >= 2 /\ Len(root.children) <= MAX_SIZE
        ELSE \A i \in DOMAIN root.children : root.children[i].leaf

\* C22: after every completed insert, removal and drain, the height of a tree
\* holding n >= 1 items, the number of parent levels from the root down to
\* the parents of the leaves, is at most max(1, ceil(log_MAX_SIZE(n))).
C22_HeightBound ==
    Completed({"insert", "drain"} \cup Removals) /\ count_of_leaves(root) >= 1 =>
        height(root) <= max_inline(1, ceil_log(count_of_leaves(root), MAX_SIZE, 0, 1))


\* The items of the leaves at or below node that are reached through parents,
\* node included, whose envelopes func unpacks.
RECURSIVE items_under_unpacked(_, _)
items_under_unpacked(node, func) ==
    IF node.leaf THEN <<node.t>>
    ELSE IF ~should_unpack_parent(func, node.envelope) \/ node.children = <<>> THEN <<>>
    ELSE items_under_unpacked(Head(node.children), func)
         \o items_under_unpacked([node EXCEPT !.children = Tail(node.children)], func)

\* The selection functions that define should_unpack_parent only.
ParentOnly(func) == func.kind \in {"SelectNone", "SelectParent"}

\* A locate or a fully consumed drain is called with such a function.
ParentOnlyCall ==
    /\ last'.op \in {"locate_with_selection_function", "drain_with_selection_function"}
    /\ ParentOnly(last'.arg)

\* C23 as stated: for a selection function that defines only
\* should_unpack_parent, a locate or a drain yields a leaf under unpacked
\* parents exactly when should_unpack_parent holds of the leaf's own envelope.
C23_LeafDefaultAsParent ==
    [][ParentOnlyCall =>
        LET holds(t) == should_unpack_parent(last'.arg, envelope_of(t))
        IN  BagOf(last'.ret) =
                BagOf(SelectSeq(items_under_unpacked(root, last'.arg), holds))]_vars

\* C23 amended: for a selection function that defines only
\* should_unpack_parent, should_unpack_leaf is true of every item: a locate or
\* a fully consumed drain yields every leaf under unpacked parents, whether or
\* not should_unpack_parent holds of the leaf's own envelope.
C23_LeafDefaultTrue ==
    [][ParentOnlyCall =>
        BagOf(last'.ret) = BagOf(items_under_unpacked(root, last'.arg))]_vars

\* A drain with a parent-only function yielded an item whose own envelope
\* the function does not unpack, and left the items of a parent that it did
\* not unpack.
C23_Witness ==
    /\ last.op = "drain_with_selection_function"
    /\ last.arg.kind = "SelectParent"
    /\ \E i \in DOMAIN last.ret : ~should_unpack_parent(last.arg, envelope_of(last.ret[i]))
    /\ size > 0

\* C24: for every tree and every selection function, select_nodes calls its
\* visitor, until the visitor breaks, on the same items in the same order as
\* SelectionIterator yields them; neither visits anything when
\* should_unpack_parent is false for the root's envelope.
C24_SelectNodesAsIterator ==
    last.op = "select_nodes" =>
        LET func == last.arg.func
            external == SelectionIterator(root, func)
            calls == IF last.arg.break_at = 0 THEN Len(external)
                     ELSE min_inline(last.arg.break_at, Len(external))
        IN  /\ last.ret = SubSeq(external, 1, calls)
            /\ ~should_unpack_parent(func, root.envelope) =>
                    last.ret = <<>> /\ external = <<>>

\* The level of a node at depth when event i of an insert call happened,
\* as its depth at the start of the call: each root split before the event
\* moved every node one level down.
level_of(events, i, depth) ==
    depth - Cardinality({j \in 1 .. (i - 1) : events[j][1] = "split"})

\* The levels that had reinserted before event i of an insert call.
reinserted_before(events, i) ==
    {level_of(events, j, events[j][2]) :
        j \in {k \in 1 .. (i - 1) : events[k][1] = "reinsert"}}

\* C25: within one insert call with REINSERTION_COUNT > 0, an overflow at a
\* depth that has not reinserted in this call reinserts REINSERTION_COUNT
\* children, every depth reinserts at most once, and a node is split only at
\* a depth that has already reinserted in this call.
C25_ReinsertOncePerDepth ==
    last.op = "insert" /\ REINSERTION_COUNT > 0 =>
        LET events == last.ret[1]
        IN  \A i \in DOMAIN events :
                /\ events[i][1] = "reinsert" =>
                        /\ level_of(events, i, events[i][2]) \notin reinserted_before(events, i)
                        /\ Len(events[i][3]) = REINSERTION_COUNT
                /\ events[i][1] = "forced" =>
                        \A depth \in events[i][3] :
                            level_of(events, i, depth) \in reinserted_before(events, i)

\* C26: split on an overflowing parent partitions its children into two
\* parents without losing or duplicating a child, each with at least
\* MIN_SIZE children; in the order sorted by envelope lower bound on the
\* chosen axis the split position k lies in MIN_SIZE .. children - MIN_SIZE
\* and has the lexicographically smallest (intersection area of the two
\* groups' envelopes, sum of their areas); both parents' envelopes are the
\* union of their own children.
C26_SplitPartition ==
    last.op = "split" =>
        LET node == last.arg
            first == root.children
            second == last.ret[1].children
            sorted == first \o second
            len == Len(node.children)
            axis == get_split_axis(node)[1]
            value(k) ==
                <<intersection_area(union_of_envelopes(SubSeq(sorted, 1, k)),
                                    union_of_envelopes(SubSeq(sorted, k + 1, len))),
                  area(union_of_envelopes(SubSeq(sorted, 1, k)))
                  + area(union_of_envelopes(SubSeq(sorted, k + 1, len)))>>
        IN  /\ BagOf(sorted) = BagOf(node.children)
            /\ Len(first) >= MIN_SIZE
            /\ Len(second) >= MIN_SIZE
            /\ \A i \in 1 .. (len - 1) :
                    nth(node_envelope(sorted[i]).lower, axis)
                        <= nth(node_envelope(sorted[i + 1]).lower, axis)
            /\ Len(first) \in MIN_SIZE .. (len - MIN_SIZE)
            /\ \A j \in MIN_SIZE .. (len - MIN_SIZE) :
                    ~tuple_less(value(j), value(Len(first)))
            /\ root.envelope = union_of_envelopes(first)
            /\ last.ret[1].envelope = union_of_envelopes(second)

\* A split with two candidate positions that took the second one, whose
\* value is the smaller, and left two groups whose envelopes overlap.
C26_Witness ==
    /\ last.op = "split"
    /\ MIN_SIZE = 2
    /\ Len(root.children) > MIN_SIZE
    /\ intersection_area(root.envelope, last.ret[1].envelope) > 0

\* C27 as stated: in the tree returned by bulk_load no parent, the root
\* included, has more than MAX_SIZE children, for every number of elements and
\* every valid parameter set.
C27_BulkLoadParentSizes ==
    last.op = "bulk_load" =>
        \A p \in parents_below(root, 1) : Len(p.node.children) <= MAX_SIZE

\* C27 amended: in the tree returned by bulk_load every parent of leaves has
\* at most MAX_SIZE children, and a parent of parents, the root included, has
\* at most c^D children, c the number of clusters per axis computed for the
\* elements below it, which can be more than MAX_SIZE.
C27_BulkLoadClusterBound ==
    last.op = "bulk_load" =>
        \A p \in parents_below(root, 1) :
            IF \A i \in DOMAIN p.node.children : p.node.children[i].leaf
            THEN Len(p.node.children) <= MAX_SIZE
            ELSE Len(p.node.children)
                    <= powi(calculate_number_of_clusters_on_axis(count_of_leaves(p.node)),
                            DIMENSIONS)

\* A bulk load returned a tree whose root has more than MAX_SIZE children.
C27_Witness ==
    /\ last.op = "bulk_load"
    /\ Len(root.children) > MAX_SIZE

\* The elements handed to the workers, in the order the closures were queued.
RECURSIVE elements_of_jobs(_)
elements_of_jobs(jobs) ==
    IF jobs = <<>> THEN <<>> ELSE Head(jobs).elements \o elements_of_jobs(Tail(jobs))

\* What holds in every state of a parallel bulk load of more than MAX_SIZE
\* elements.
ParallelLoadSafe ==
    loader.phase \in {"partitioning", "receiving", "done"}
    /\ Len(loader.elements) > MAX_SIZE =>
        LET sent == {i \in DOMAIN loader.jobs : loader.jobs[i].state = "sent"}
            subtrees == [i \in DOMAIN loader.jobs |->
                            bulk_load_sequential(loader.jobs[i].elements)]
        IN  /\ loader.expected_children = Len(loader.jobs)
            /\ BagOf(loader.channel \o loader.received)
                    = BagOf([i \in 1 .. Cardinality(sent) |->
                                subtrees[CHOOSE j \in sent :
                                    Cardinality({h \in sent : h < j}) = i - 1]])
            /\ loader.phase # "partitioning" =>
                    BagOf(elements_of_jobs(loader.jobs)) = BagOf(loader.elements)
            /\ loader.phase = "done" =>
                    /\ Len(loader.received) = Len(loader.jobs)
                    /\ BagOf(loader.received) = BagOf(subtrees)
                    /\ loader.channel = <<>>
                    /\ root.children = loader.received
                    /\ BagOf(iter(root)) = BagOf(loader.elements)

\* C28: in the parallel bulk load of more than MAX_SIZE elements every
\* top-level cluster is handed to exactly one worker, every worker sends
\* exactly one subtree, and the calling thread receives exactly as many
\* subtrees as workers were spawned; under every interleaving it returns, with
\* no subtree dropped or duplicated and a root that holds every input element
\* exactly once.
C28_ParallelLoad ==
    /\ []ParallelLoadSafe
    /\ (loader.phase = "partitioning") ~> (loader.phase = "done")

\* A parallel load returned a root whose children arrived in another order
\* than their workers were spawned in.
C28_Witness ==
    /\ loader.phase = "done"
    /\ Len(loader.elements) > MAX_SIZE
    /\ \E i \in DOMAIN loader.received :
            loader.received[i] # bulk_load_sequential(loader.jobs[i].elements)

\* The items locate_with_selection_function specifies: the leaves that func
\* unpacks under parents, the root included, all of which func unpacks.
selected_items(tree_root, func) ==
    LET unpacked(t) == should_unpack_leaf(func, t)
    IN  SelectSeq(items_under_unpacked(tree_root, func), unpacked)

\* C29: a fully consumed drain_with_selection_function(S) yields the same
\* items as locate_with_selection_function(S) yields on the same tree, which
\* are the leaves S unpacks under parents that S unpacks, and a locate with S
\* on the tree after the drain yields nothing.
C29_DrainAsLocate ==
    [][last'.op = "drain_with_selection_function" =>
        /\ BagOf(last'.ret) = BagOf(SelectionIterator(root, last'.arg))
        /\ BagOf(last'.ret) = BagOf(selected_items(root, last'.arg))
        /\ SelectionIterator(root', last'.arg) = <<>>]_vars

\* A drain over a tree of height two yielded items of more than one parent
\* and left items of more than one parent.
C29_Witness ==
    /\ last.op = "drain_with_selection_function"
    /\ Len(last.ret) >= 3
    /\ Len(root.children) >= 2
    /\ height(root) = 2
    /\ last.arg.kind = "SelectInEnvelope"

\* The call that set last is a remove_with_selection_function, returned or
\* not, or a drain consumed to its end.
RemovalCall ==
    \/ last'.op \in {"remove_with_selection_function", "drain_with_selection_function"}
    \/ last'.op = "panic" /\ last'.ret = Some("remove_with_selection_function")

\* C30: a remove_with_selection_function call, or a fully consumed drain,
\* whose selection function matches no item leaves the tree as it was: the
\* same root with the same children in the same order and the same envelopes,
\* and the same size, so that iter() yields the items in the same order.
C30_NoMatchLeavesTree ==
    [][RemovalCall /\ SelectionIterator(root, last'.arg) = <<>> =>
        /\ root' = root
        /\ size' = size
        /\ iter(root') = iter(root)]_vars

\* The same for the calls that return.
C30_NoMatchReturned ==
    [][(/\ last'.op \in {"remove_with_selection_function", "drain_with_selection_function"}
        /\ SelectionIterator(root, last'.arg) = <<>>)
       => root' = root /\ size' = size]_vars

=============================================================================
